---- MODULE Spec2Model ----
(***************************************************************************)
(* OpenMandate: the tool resolver (tool-filter.ts), the Tool Gate stage    *)
(* (tool-gate.processor.ts), the audit logger (audit/logger.ts) and the    *)
(* Limits stage (limits.processor.ts), the Escalation and Scope stages of   *)
(* the input hook and the Citation, Disclaimer and Audit stages of the     *)
(* result hook; the consistency validator (parser.ts), the skill pack      *)
(* registry (skills/registry.ts), the agent factory (agents/factory.ts),   *)
(* policy composition (composeMandates) and the host runtime that drives   *)
(* the stages of an assembled agent through one interaction; the Data      *)
(* Access stage, the Output Validator and the three keyword and pattern    *)
(* registries that skill packs fill.                                       *)
(*                                                                         *)
(* Identifiers are sequences of one-character strings, so that prefix      *)
(* tests and String.replace are computed as the code computes them.        *)
(* Message texts are sequences of tokens (words, separators, marks);       *)
(* String.includes is the test for a contiguous run of tokens.             *)
(* A stage's abort callback ends the handler (the host runtime raises it   *)
(* as an error: "Processor aborts come through as errors").                *)
(***************************************************************************)
EXTENDS Integers, Sequences, FiniteSets, TLC

VARIABLES
    mandate,        \* the parsed policy the stages were constructed from
    allTools,       \* Record<string, tool>: key -> tool.id (<<>> when the tool has no id)
    filtered,       \* keys of the record filterToolsByMandate returned
    toolCalls,      \* the batch handed to the last Tool Gate call
    retryCount,     \* the retryCount handed to the last Tool Gate call
    gateOutcome,    \* how the last Tool Gate call ended
    auditLog,       \* rows of the audit_log table, in insertion order
    logMark,        \* Len(auditLog) when the last Tool Gate call started
    activeSessions, \* Map<sessionId, {turns, startedAt}>
    dailyTokensUsed,
    lastResetDate,
    now,            \* the wall clock, in milliseconds
    limitsOutcome,  \* how the last Limits call ended
    inFlight,       \* interactions admitted on input whose final response is still to come
    registeredExpansions,    \* Map<skillPackId, Record<topic, keywords>>, in insertion order
    registeredScopeKeywords, \* Map<skillPackId, Record<scope, keywords>>, in insertion order
    registeredPatterns,      \* Map<skillPackId, {action, pattern}[]>, in insertion order
    processors,     \* what the create...Processor calls of the registry-reading stages captured
    messages,       \* the message list handed to the last stage call
    stageOutcome,   \* how the last call of an input or result stage ended
    registry,       \* SkillPackRegistry.packs: the registered packs, in insertion order
    agent,          \* what the last createMandatedAgent call produced
    hook,           \* where the interaction in progress stands in the agent's stage chains
    trace,          \* the stages that ran in the current attempt of the interaction
    delivered,      \* what the current attempt handed back to the caller
    policies,       \* the arguments of the policy function under study
    returned        \* what the last call of a policy or logger function returned

toolVars == <<mandate, allTools, filtered, toolCalls, retryCount, gateOutcome, auditLog, logMark>>
limitVars == <<activeSessions, dailyTokensUsed, lastResetDate, now, limitsOutcome, inFlight>>
stageVars ==
    <<registeredExpansions, registeredScopeKeywords, registeredPatterns, processors, messages,
      stageOutcome>>
coreVars == <<registry, agent, hook, trace, delivered, policies, returned>>
vars == <<toolVars, limitVars, stageVars, coreVars>>

----------------------------------------------------------------------------
(* Strings as sequences of characters *)

\* String.prototype.includes for a single character
Includes(s, ch) == \E i \in 1..Len(s) : s[i] = ch

\* String.prototype.startsWith
StartsWith(s, prefix) ==
    /\ Len(prefix) <= Len(s)
    /\ SubSeq(s, 1, Len(prefix)) = prefix

\* String.prototype.indexOf, 1-based; 0 when pat does not occur
IndexOf(s, pat) ==
    LET hits == { i \in 1..(Len(s) - Len(pat) + 1) : SubSeq(s, i, i + Len(pat) - 1) = pat }
    IN  IF hits = {} THEN 0 ELSE CHOOSE i \in hits : \A j \in hits : i <= j

\* s.replace(pat, ""): removes the first occurrence of pat only
RemoveFirst(s, pat) ==
    LET i == IndexOf(s, pat)
    IN  IF i = 0 THEN s ELSE SubSeq(s, 1, i - 1) \o SubSeq(s, i + Len(pat), Len(s))

SeqToSet(s) == { s[i] : i \in 1..Len(s) }

----------------------------------------------------------------------------
(* Identifiers of the bounded universe *)

PayX == <<"p","a","y","-","x">>     \* "pay-x"
Pays == <<"p","a","y","s">>         \* "pays"
Doc == <<"d","o","c">>              \* "doc"
PayStar == <<"p","a","y","-","*">>  \* "pay-*"
Star == <<"*">>                     \* "*"

ToolNames == {PayX, Pays, Doc}

\* mandate.capabilities.tools
Whitelists == {<<>>, <<Doc>>, <<PayX, Doc>>, <<Pays, PayX>>}

\* mandate.prohibitions.tools: exact entries and trailing-wildcard entries
ProhibitionLists ==
    {<<>>, <<PayStar>>, <<Doc, PayStar>>, <<Star>>, <<Star, PayStar>>, <<PayX>>}

\* mandate.prohibitions.data
DataProhibitionLists == {<<>>, <<"medical_records", "trade_secrets">>}

\* Records of available tools: key -> tool.id (<<>>: the tool carries no id)
ToolRecords ==
    { [k \in {PayX, Pays, Doc} |-> IF k = Doc THEN <<>> ELSE k],
      [k \in {Pays, Doc} |-> IF k = Doc THEN PayX ELSE k] }

MaxToolCallCap == 2
MaxBatch == 2
MaxRetryCount == 2
MaxAuditLen == 1

\* The keywords that occur in a call's serialized, lowercased arguments
ArgSets == {{}, {"diagnosis"}, {"trade secrets"}}

----------------------------------------------------------------------------
(* src/mandate/tool-filter.ts *)

\* mandate.prohibitions.tools.filter(t => !t.includes("*"))
ExactEntries(prohibited) ==
    { prohibited[i] : i \in { j \in 1..Len(prohibited) : ~Includes(prohibited[j], "*") } }

\* mandate.prohibitions.tools.filter(t => t.includes("*"))
\*     .map(t => t.replace("-*", "").replace("*", ""))
RECURSIVE ProhibitedPrefixes(_)
ProhibitedPrefixes(prohibited) ==
    IF prohibited = <<>> THEN <<>>
    ELSE IF Includes(Head(prohibited), "*")
         THEN <<RemoveFirst(RemoveFirst(Head(prohibited), <<"-", "*">>), <<"*">>)>>
                  \o ProhibitedPrefixes(Tail(prohibited))
         ELSE ProhibitedPrefixes(Tail(prohibited))

\* tool.id || key
ToolId(tools, key) == IF tools[key] # <<>> THEN tools[key] ELSE key

\* prohibitedPrefixes.some(prefix => toolId.startsWith(prefix))
SomePrefix(prefixes, toolId) == \E i \in 1..Len(prefixes) : StartsWith(toolId, prefixes[i])

\* One iteration of the loop over Object.entries(allTools): TRUE when the entry is kept
KeepsEntry(tools, m, key) ==
    LET toolId == ToolId(tools, key)
    IN  /\ toolId \in SeqToSet(m.capabilities.tools)
        /\ toolId \notin ExactEntries(m.prohibitions.tools)
        /\ ~SomePrefix(ProhibitedPrefixes(m.prohibitions.tools), toolId)

filterToolsByMandate(tools, m) ==
    [key \in { k \in DOMAIN tools : KeepsEntry(tools, m, k) } |-> tools[key]]

----------------------------------------------------------------------------
(* src/audit/logger.ts *)

Null == "null"
DefaultQueryLimit == 50
NullDetail == [template |-> "", tool |-> <<>>, word |-> "", n |-> 0]

\* A TEXT column holding a message text, or NULL
SqlText(text) == [null |-> FALSE, text |-> text]
SqlNull == [null |-> TRUE, text |-> <<>>]

\* LoggerLog with INSERT OR REPLACE keyed by the policy name: a row of the same policy
\* is replaced
LoggerLogReplacing(log, entry) ==
    LET name == IF "mandateName" \in DOMAIN entry /\ entry.mandateName # ""
                THEN entry.mandateName ELSE "unknown"
        Others(row) == row.mandate_name # name
    IN  Append(SelectSeq(log, Others),
               [ mandate_name |-> name,
                 mandate_version |-> "1.0", status |-> "success",
                 input_text |-> SqlNull, output_text |-> SqlNull,
                 check_name |-> Null, check_result |-> Null, check_detail |-> NullDetail ])

\* AuditLogger.log: one INSERT; a field that is absent or empty (entry.field || default)
\* takes the default of the statement
LoggerLog(log, entry) ==
    Append(log,
        [ mandate_name |-> IF "mandateName" \in DOMAIN entry /\ entry.mandateName # ""
                           THEN entry.mandateName ELSE "unknown",
          mandate_version |-> IF "mandateVersion" \in DOMAIN entry /\ entry.mandateVersion # ""
                              THEN entry.mandateVersion ELSE "1.0",
          status |-> IF "status" \in DOMAIN entry /\ entry.status # ""
                     THEN entry.status ELSE "success",
          input_text |-> IF "input" \in DOMAIN entry /\ entry.input # <<>>
                         THEN SqlText(entry.input) ELSE SqlNull,
          output_text |-> IF "output" \in DOMAIN entry /\ entry.output # <<>>
                          THEN SqlText(entry.output) ELSE SqlNull,
          check_name |-> IF "check" \in DOMAIN entry /\ entry.check # ""
                         THEN entry.check ELSE Null,
          check_result |-> IF "result" \in DOMAIN entry /\ entry.result # ""
                           THEN entry.result ELSE Null,
          check_detail |-> IF "detail" \in DOMAIN entry THEN entry.detail ELSE NullDetail ])

----------------------------------------------------------------------------
(* src/mandate/processors/tool-gate.processor.ts *)

\* dataKeywords[category] || [category.replace(/_/g, " ")]
DataKeywords(category) ==
    CASE category = "financial_accounts" ->
            <<"bank_account", "credit_card", "routing_number", "account_number">>
      [] category = "medical_records" ->
            <<"medical", "diagnosis", "prescription", "health_record">>
      [] category = "national_insurance_numbers" -> <<"national insurance", "ni number", "nino">>
      [] category = "social_security_numbers" -> <<"social security", "ssn">>
      [] category = "credentials_and_passwords" ->
            <<"password", "api_key", "secret", "token", "credential">>
      [] category = "trade_secrets" -> <<"trade secrets">>
      [] OTHER -> <<category>>

\* keywords.find(kw => argsString.includes(kw.toLowerCase())): index of the first hit, 0 if none
FirstKeyword(keywords, args) ==
    LET hits == { i \in 1..Len(keywords) : keywords[i] \in args }
    IN  IF hits = {} THEN 0 ELSE CHOOSE i \in hits : \A j \in hits : i <= j

\* prohibitedPrefixes.find(prefix => toolName.startsWith(prefix)): index of the first hit
FirstPrefix(prefixes, toolName) ==
    LET hits == { i \in 1..Len(prefixes) : StartsWith(toolName, prefixes[i]) }
    IN  IF hits = {} THEN 0 ELSE CHOOSE i \in hits : \A j \in hits : i <= j

\* if (wildcardMatch): the found prefix is a string, and the empty string is falsy
WildcardMatch(prefixes, toolName) ==
    LET i == FirstPrefix(prefixes, toolName)
    IN  i # 0 /\ prefixes[i] # <<>>

\* A reason or detail string, kept as its template and the values interpolated into it
Text(template, tool, word, n) == [template |-> template, tool |-> tool, word |-> word, n |-> n]

Passed == [aborted |-> FALSE, retry |-> FALSE, reason |-> Text("", <<>>, "", 0)]
Abort(reason, retry) == [aborted |-> TRUE, retry |-> retry, reason |-> reason]

\* if (retryCount < 2) abort(..., {retry: true}) else abort(...)
WhitelistAbort(toolName, rc) ==
    IF rc < 2
    THEN Abort(Text("Tool is not available. Only use", toolName, "", 0), TRUE)
    ELSE Abort(Text("Unable to complete this request within my operating guidelines.", <<>>, "", 0),
               FALSE)

\* Check 4 of one call: the first prohibited category with a keyword in the arguments, 0 if none
FirstDataCategory(categories, args) ==
    LET hits == { i \in 1..Len(categories) : FirstKeyword(DataKeywords(categories[i]), args) # 0 }
    IN  IF hits = {} THEN 0 ELSE CHOOSE i \in hits : \A j \in hits : i <= j

\* The body of the loop for one call: the audit entry it writes and how it ends
GateCall(m, call, rc) ==
    LET toolName == call.toolName
        prefixes == ProhibitedPrefixes(m.prohibitions.tools)
        cat == FirstDataCategory(m.prohibitions.data, call.args)
    IN  IF toolName \notin SeqToSet(m.capabilities.tools)
        THEN [ entry |-> [check |-> "tool_whitelist", result |-> "blocked",
                          detail |-> Text("Tool not in allowed tools", toolName, "", 0)],
               outcome |-> WhitelistAbort(toolName, rc) ]
        ELSE IF toolName \in ExactEntries(m.prohibitions.tools)
        THEN [ entry |-> [check |-> "tool_prohibition", result |-> "blocked",
                          detail |-> Text("Tool is explicitly prohibited", toolName, "", 0)],
               outcome |-> Abort(Text("Tool is prohibited by my operating mandate.",
                                      toolName, "", 0), TRUE) ]
        ELSE IF WildcardMatch(prefixes, toolName)
        THEN [ entry |-> [check |-> "tool_prohibition_wildcard", result |-> "blocked",
                          detail |-> Text("Tool matches wildcard prohibition", toolName, "",
                                          FirstPrefix(prefixes, toolName))],
               outcome |-> Abort(Text("Tool is prohibited by my operating mandate.",
                                      toolName, "", 0), TRUE) ]
        ELSE IF cat # 0
        THEN [ entry |-> [check |-> "data_prohibition", result |-> "blocked",
                          detail |-> Text("Tool args reference prohibited data category", <<>>,
                                          m.prohibitions.data[cat], 0)],
               outcome |-> Abort(Text("I cannot access data.", <<>>,
                                      m.prohibitions.data[cat], 0), TRUE) ]
        ELSE [ entry |-> [check |-> "tool_gate", result |-> "allowed",
                          detail |-> Text("Tool passed all mandate checks", toolName, "", 0)],
               outcome |-> Passed ]

\* GateLoop with an abort that returns: the blocked call runs on to the "allowed" entry
RECURSIVE GateLoopRunsOn(_, _, _, _)
GateLoopRunsOn(m, calls, rc, log) ==
    IF calls = <<>> THEN [log |-> log, outcome |-> Passed]
    ELSE LET r == GateCall(m, Head(calls), rc)
         IN  IF r.outcome.aborted
             THEN [ log |-> LoggerLog(LoggerLog(log, r.entry),
                                      [check |-> "tool_gate", result |-> "allowed",
                                       detail |-> Text("Tool passed all mandate checks",
                                                       Head(calls).toolName, "", 0)]),
                    outcome |-> r.outcome ]
             ELSE GateLoopRunsOn(m, Tail(calls), rc, LoggerLog(log, r.entry))

\* for (const toolCall of toolCalls): the abort of one call ends the handler
RECURSIVE GateLoop(_, _, _, _)
GateLoop(m, calls, rc, log) ==
    IF calls = <<>> THEN [log |-> log, outcome |-> Passed]
    ELSE LET r == GateCall(m, Head(calls), rc)
         IN  IF r.outcome.aborted
             THEN [log |-> LoggerLog(log, r.entry), outcome |-> r.outcome]
             ELSE GateLoop(m, Tail(calls), rc, LoggerLog(log, r.entry))

\* TooManyCalls with >= for >
TooManyCallsAtCap(m, calls) == Len(calls) >= m.limits.max_tool_calls_per_turn

\* The check of the call count that opens processOutputStep
TooManyCalls(m, calls) == Len(calls) > m.limits.max_tool_calls_per_turn

\* createToolGateProcessor(...).processOutputStep
ToolGateStep(m, calls, rc, log) ==
    IF Len(calls) = 0 THEN [log |-> log, outcome |-> Passed]
    ELSE IF TooManyCalls(m, calls)
    THEN [ log |-> LoggerLog(log, [check |-> "tool_call_limit", result |-> "blocked",
                                   detail |-> Text("calls exceeds limit", <<>>, "", Len(calls))]),
           outcome |-> Abort(Text("Too many tool calls. Maximum is", <<>>, "",
                                  m.limits.max_tool_calls_per_turn), TRUE) ]
    ELSE GateLoop(m, calls, rc, log)

----------------------------------------------------------------------------
(* src/mandate/validator.ts, check 1: whitelisted tools against the prohibitions *)

\* The errors validateMandateConsistency pushes for the whitelisted tools
ToolCollisionErrors(m) ==
    LET allowedTools == SeqToSet(m.capabilities.tools)
        prefixes == ProhibitedPrefixes(m.prohibitions.tools)
    IN  { [kind |-> "exact", tool |-> tool] :
              tool \in { t \in allowedTools : t \in ExactEntries(m.prohibitions.tools) } }
        \cup
        { [kind |-> "wildcard", tool |-> tool] :
              tool \in { t \in allowedTools : WildcardMatch(prefixes, t) } }

----------------------------------------------------------------------------
(* src/mandate/processors/limits.processor.ts *)

SessionIds == {"default", "s1", "s2"}

MsPerSecond == 1000
MsPerDay == 86400000
TickMs == 500
MaxTicks == 3
MaxInFlight == 2
MaxTextLen == 5
CharsPerToken == 4
MaxExtensionLength == 6

\* new Date().toDateString(): the calendar day of the clock
DateString(t) == t \div MsPerDay

ConcurrentReason ==
    Text("Maximum concurrent sessions reached. Please try again later.", <<>>, "", 0)
SessionLimitReason(limits) ==
    Text("Session limit reached (${n} turns). Please start a new conversation.", <<>>, "",
         limits.max_turns_per_session)
TimeoutReason == Text("Session has timed out. Please start a new conversation.", <<>>, "", 0)
DailyBudgetReason ==
    Text("Daily token budget has been exhausted. Service will resume tomorrow.", <<>>, "", 0)

\* The marker appended to a truncated response, character by character ("emdash" stands
\* for the one character U+2014)
TruncationMarker ==
    <<"\n", "\n", "-", "-", "-", "\n", "_", "[", "R", "e", "s", "p", "o", "n", "s", "e", " ",
       "t", "r", "u", "n", "c", "a", "t", "e", "d", " ", "emdash", " ", "e", "x", "c", "e",
       "e", "d", "e", "d", " ", "m", "a", "x", "i", "m", "u", "m", " ", "l", "e", "n", "g",
       "t", "h", " ", "f", "o", "r", " ", "t", "h", "i", "s", " ", "m", "a", "n", "d", "a",
       "t", "e", "]", "_">>

\* The module-level state: activeSessions, dailyTokensUsed, lastResetDate
LimitsState(sessions, used, resetDate) ==
    [activeSessions |-> sessions, dailyTokensUsed |-> used, lastResetDate |-> resetDate]

resetDailyIfNeeded(st, t) ==
    IF DateString(t) # st.lastResetDate
    THEN LimitsState(st.activeSessions, 0, DateString(t))
    ELSE st

\* Map.prototype.set / Map.prototype.delete
MapSet(map, key, value) == [k \in DOMAIN map \cup {key} |-> IF k = key THEN value ELSE map[k]]

\* MapDelete as Map.prototype.clear
MapClear(map, key) == [k \in {} |-> map[k]]

MapDelete(map, key) == [k \in DOMAIN map \ {key} |-> map[k]]

\* ConcurrencyReached with > for >=
ConcurrencyReachedStrict(limits, sessions) ==
    Cardinality(DOMAIN sessions) > limits.max_concurrent_sessions

\* activeSessions.size >= limits.max_concurrent_sessions
ConcurrencyReached(limits, sessions) ==
    Cardinality(DOMAIN sessions) >= limits.max_concurrent_sessions

\* TurnLimitExceeded with >= for >
TurnLimitReached(limits, session) == session.turns >= limits.max_turns_per_session

\* session.turns > limits.max_turns_per_session
TurnLimitExceeded(limits, session) == session.turns > limits.max_turns_per_session

\* TimedOut with >= for >
TimedOutAtLimit(limits, session, t) ==
    (t - session.startedAt) >= limits.timeout_seconds * MsPerSecond

\* (Date.now() - session.startedAt) / 1000 > limits.timeout_seconds
TimedOut(limits, session, t) == (t - session.startedAt) > limits.timeout_seconds * MsPerSecond

\* BudgetExhausted with > for >=
BudgetExceeded(limits, used) ==
    limits.token_budget_daily # 0 /\ used > limits.token_budget_daily

\* limits.token_budget_daily && dailyTokensUsed >= limits.token_budget_daily
BudgetExhausted(limits, used) ==
    limits.token_budget_daily # 0 /\ used >= limits.token_budget_daily

\* createLimitsProcessor(...).processInput for the session id of the call
LimitsInput(limits, sessionId, st0, t) ==
    LET st == resetDailyIfNeeded(st0, t)
        isNew == sessionId \notin DOMAIN st.activeSessions
    IN  IF isNew /\ ConcurrencyReached(limits, st.activeSessions)
        THEN [st |-> st, outcome |-> Abort(ConcurrentReason, FALSE)]
        ELSE
        LET opened == IF isNew
                      THEN MapSet(st.activeSessions, sessionId, [turns |-> 0, startedAt |-> t])
                      ELSE st.activeSessions
            session == [opened[sessionId] EXCEPT !.turns = @ + 1]
            counted == MapSet(opened, sessionId, session)
        IN  IF TurnLimitExceeded(limits, session)
            THEN [ st |-> LimitsState(MapDelete(counted, sessionId), st.dailyTokensUsed,
                                      st.lastResetDate),
                   outcome |-> Abort(SessionLimitReason(limits), FALSE) ]
            ELSE IF TimedOut(limits, session, t)
            THEN [ st |-> LimitsState(MapDelete(counted, sessionId), st.dailyTokensUsed,
                                      st.lastResetDate),
                   outcome |-> Abort(TimeoutReason, FALSE) ]
            ELSE IF BudgetExhausted(limits, st.dailyTokensUsed)
            THEN [ st |-> LimitsState(counted, st.dailyTokensUsed, st.lastResetDate),
                   outcome |-> Abort(DailyBudgetReason, FALSE) ]
            ELSE [ st |-> LimitsState(counted, st.dailyTokensUsed, st.lastResetDate),
                   outcome |-> Passed ]

\* EstimatedTokens with Math.floor for Math.ceil
EstimatedTokensFloor(text) == Len(text) \div CharsPerToken

\* Math.ceil(text.length / 4)
EstimatedTokens(text) == (Len(text) + CharsPerToken - 1) \div CharsPerToken

\* text.substring(0, maxChars) + marker
Truncate(limits, text) ==
    LET maxChars == limits.max_tokens_per_turn * CharsPerToken
    IN  SubSeq(text, 1, IF Len(text) < maxChars THEN Len(text) ELSE maxChars) \o TruncationMarker

\* LimitsResult with the estimate accumulated before the truncation branch returns
LimitsResultCountsTruncated(limits, hasAssistant, text, st0, t) ==
    LET st == resetDailyIfNeeded(st0, t)
        counted == LimitsState(st.activeSessions, st.dailyTokensUsed + EstimatedTokens(text),
                               st.lastResetDate)
    IN  IF ~hasAssistant THEN [st |-> st, text |-> text]
        ELSE IF EstimatedTokens(text) > limits.max_tokens_per_turn
        THEN [st |-> counted, text |-> Truncate(limits, text)]
        ELSE [st |-> counted, text |-> text]

\* createLimitsProcessor(...).processOutputResult; hasAssistant: the messages hold an
\* assistant message, whose content is text
LimitsResult(limits, hasAssistant, text, st0, t) ==
    LET st == resetDailyIfNeeded(st0, t)
    IN  IF ~hasAssistant THEN [st |-> st, text |-> text]
        ELSE IF EstimatedTokens(text) > limits.max_tokens_per_turn
        THEN [st |-> st, text |-> Truncate(limits, text)]
        ELSE [ st |-> LimitsState(st.activeSessions, st.dailyTokensUsed + EstimatedTokens(text),
                                  st.lastResetDate),
               text |-> text ]


----------------------------------------------------------------------------
(* The policies and inputs of the bounded universe *)

DefaultLimits ==
    [ max_tokens_per_turn |-> 2, max_tool_calls_per_turn |-> 2, max_turns_per_session |-> 2,
      max_concurrent_sessions |-> 2, token_budget_daily |-> 3, timeout_seconds |-> 1 ]

Mandate(tools, prohibited, data, limits) ==
    [ capabilities |-> [tools |-> tools],
      prohibitions |-> [tools |-> prohibited, data |-> data],
      limits |-> limits ]

ToolCalls == [toolName : ToolNames, args : ArgSets]

Batches == UNION { [1..n -> ToolCalls] : n \in 0..MaxBatch }

NoSessions == [k \in {} |-> [turns |-> 0, startedAt |-> 0]]
NoLimitsOutcome ==
    [ op |-> "none", sessionId |-> "", aborted |-> FALSE, retry |-> FALSE,
      reason |-> Passed.reason, text |-> <<>> ]

StartOfClock == MsPerDay - 2 * TickMs

LimitsIdle ==
    /\ activeSessions = NoSessions
    /\ dailyTokensUsed = 0
    /\ lastResetDate = DateString(StartOfClock)
    /\ now = StartOfClock
    /\ limitsOutcome = NoLimitsOutcome
    /\ inFlight = 0

NoStageOutcome ==
    [stage |-> "none", aborted |-> FALSE, retry |-> FALSE, reason |-> <<>>, messages |-> <<>>]

\* No stage constructed yet; registries holds what the three registries held when the
\* stages were constructed
NoProcessors ==
    [ constructed |-> FALSE, allExpansions |-> <<>>, allScopeKeywords |-> <<>>,
      registries |-> [expansions |-> <<>>, scopeKeywords |-> <<>>, patterns |-> <<>>] ]

NoAgent ==
    [ constructed |-> FALSE, error |-> "", inputProcessors |-> <<>>, outputProcessors |-> <<>>,
      tools |-> [k \in {} |-> <<>>], loggers |-> 0 ]

NoOutcome == [ended |-> FALSE, aborted |-> FALSE, retry |-> FALSE, reason |-> <<>>, by |-> "none"]

NoReturn == [kind |-> "none"]

CoreIdle ==
    /\ registry = <<>>
    /\ agent = NoAgent
    /\ hook = [phase |-> "idle", index |-> 0, steps |-> 0]
    /\ trace = <<>>
    /\ delivered = NoOutcome
    /\ policies = <<>>
    /\ returned = NoReturn

StagesIdle ==
    /\ registeredExpansions = <<>>
    /\ registeredScopeKeywords = <<>>
    /\ registeredPatterns = <<>>
    /\ processors = NoProcessors
    /\ messages = <<>>
    /\ stageOutcome = NoStageOutcome

ToolsIdle ==
    /\ allTools = [k \in {} |-> <<>>]
    /\ filtered = [resolved |-> FALSE, tools |-> [k \in {} |-> <<>>]]
    /\ toolCalls = <<>>
    /\ retryCount = 0
    /\ gateOutcome = Passed
    /\ auditLog = <<>>
    /\ logMark = 0

----------------------------------------------------------------------------
(* The resolver and the Tool Gate of one agent *)

ToolInit ==
    /\ \E tools \in Whitelists, prohibited \in ProhibitionLists, data \in DataProhibitionLists,
          cap \in 1..MaxToolCallCap :
          mandate = Mandate(tools, prohibited, data,
                            [DefaultLimits EXCEPT !.max_tool_calls_per_turn = cap])
    /\ allTools \in ToolRecords
    /\ filtered = [resolved |-> FALSE, tools |-> [k \in {} |-> <<>>]]
    /\ toolCalls = <<>>
    /\ retryCount = 0
    /\ gateOutcome = Passed
    /\ auditLog = <<>>
    /\ logMark = 0
    /\ LimitsIdle
    /\ StagesIdle
    /\ CoreIdle

\* createMandatedAgent, step 3: the agent is given the filtered tools
ResolveTools ==
    /\ ~filtered.resolved
    /\ filtered' = [resolved |-> TRUE, tools |-> filterToolsByMandate(allTools, mandate)]
    /\ UNCHANGED <<mandate, allTools, toolCalls, retryCount, gateOutcome, auditLog, logMark>>
    /\ UNCHANGED limitVars
    /\ UNCHANGED stageVars
    /\ UNCHANGED coreVars

\* The runtime hands a batch of proposed tool calls to the Tool Gate
ToolGate(calls, rc) ==
    /\ filtered.resolved
    /\ Len(auditLog) < MaxAuditLen
    /\ LET r == ToolGateStep(mandate, calls, rc, auditLog)
       IN  /\ auditLog' = r.log
           /\ gateOutcome' = r.outcome
    /\ toolCalls' = calls
    /\ retryCount' = rc
    /\ logMark' = Len(auditLog)
    /\ UNCHANGED <<mandate, allTools, filtered>>
    /\ UNCHANGED limitVars
    /\ UNCHANGED stageVars
    /\ UNCHANGED coreVars

ToolNext ==
    \/ ResolveTools
    \/ \E calls \in Batches, rc \in 0..MaxRetryCount : ToolGate(calls, rc)

ToolSpec == ToolInit /\ [][ToolNext]_vars


----------------------------------------------------------------------------
(* The Limits stage of one agent, its sessions and the clock *)

MaxTurnsPerSession == 2
MaxConcurrentSessions == 2
MaxTokenBudget == 2
MaxTimeoutSeconds == 1
MaxTokensPerTurn == 1

LimitsChoices ==
    [ max_tokens_per_turn : 1..MaxTokensPerTurn,
      max_tool_calls_per_turn : {1},
      max_turns_per_session : 1..MaxTurnsPerSession,
      max_concurrent_sessions : 1..MaxConcurrentSessions,
      token_budget_daily : 1..MaxTokenBudget,
      timeout_seconds : 1..MaxTimeoutSeconds ]

\* "A".repeat(n)
Repeat(n) == [i \in 1..n |-> "A"]
Texts == { Repeat(n) : n \in 0..MaxTextLen }

LimitsInit ==
    /\ \E limits \in LimitsChoices : mandate = Mandate(<<>>, <<>>, <<>>, limits)
    /\ ToolsIdle
    /\ LimitsIdle
    /\ StagesIdle
    /\ CoreIdle

CurrentLimitsState == LimitsState(activeSessions, dailyTokensUsed, lastResetDate)

\* An input of session sessionId reaches the Limits stage
ProcessInput(sessionId) ==
    /\ inFlight < MaxInFlight
    /\ LET r == LimitsInput(mandate.limits, sessionId, CurrentLimitsState, now)
       IN  /\ activeSessions' = r.st.activeSessions
           /\ dailyTokensUsed' = r.st.dailyTokensUsed
           /\ lastResetDate' = r.st.lastResetDate
           /\ limitsOutcome' = [ op |-> "input", sessionId |-> sessionId,
                                 aborted |-> r.outcome.aborted, retry |-> r.outcome.retry,
                                 reason |-> r.outcome.reason, text |-> <<>> ]
           /\ inFlight' = IF r.outcome.aborted THEN inFlight ELSE inFlight + 1
    /\ UNCHANGED <<now, mandate>>
    /\ UNCHANGED <<allTools, filtered, toolCalls, retryCount, gateOutcome, auditLog, logMark>>
    /\ UNCHANGED stageVars
    /\ UNCHANGED coreVars

\* The final response of an admitted interaction reaches the Limits stage
ProcessResult(hasAssistant, text) ==
    /\ inFlight > 0
    /\ LET r == LimitsResult(mandate.limits, hasAssistant, text, CurrentLimitsState, now)
       IN  /\ activeSessions' = r.st.activeSessions
           /\ dailyTokensUsed' = r.st.dailyTokensUsed
           /\ lastResetDate' = r.st.lastResetDate
           /\ limitsOutcome' = [ op |-> "result", sessionId |-> "", aborted |-> FALSE,
                                 retry |-> FALSE, reason |-> Passed.reason, text |-> r.text ]
    /\ inFlight' = inFlight - 1
    /\ UNCHANGED <<now, mandate>>
    /\ UNCHANGED <<allTools, filtered, toolCalls, retryCount, gateOutcome, auditLog, logMark>>
    /\ UNCHANGED stageVars
    /\ UNCHANGED coreVars

\* An admitted interaction ends in a later stage's abort and never reaches the result hook
Abandon ==
    /\ inFlight > 0
    /\ inFlight' = inFlight - 1
    /\ UNCHANGED <<activeSessions, dailyTokensUsed, lastResetDate, now, limitsOutcome>>
    /\ UNCHANGED toolVars
    /\ UNCHANGED stageVars
    /\ UNCHANGED coreVars

\* Date.now() advances
Tick ==
    /\ now - StartOfClock < MaxTicks * TickMs
    /\ now' = now + TickMs
    /\ UNCHANGED <<activeSessions, dailyTokensUsed, lastResetDate, limitsOutcome, inFlight>>
    /\ UNCHANGED toolVars
    /\ UNCHANGED stageVars
    /\ UNCHANGED coreVars

LimitsNext ==
    \/ \E sessionId \in SessionIds : ProcessInput(sessionId)
    \/ \E hasAssistant \in BOOLEAN, text \in Texts : ProcessResult(hasAssistant, text)
    \/ Abandon
    \/ Tick

LimitsSpec == LimitsInit /\ [][LimitsNext]_vars


----------------------------------------------------------------------------
(* Properties of the resolver and the Tool Gate (ToolSpec) *)

Whitelisted(id) == \E i \in 1..Len(mandate.capabilities.tools) : mandate.capabilities.tools[i] = id

\* id is one of the prohibition entries, taken literally
ExactlyProhibited(id) ==
    \E i \in 1..Len(mandate.prohibitions.tools) : mandate.prohibitions.tools[i] = id

\* A wildcard entry ends in the marker "*"
IsWildcardEntry(e) == Len(e) > 0 /\ e[Len(e)] = "*"

\* The text of a wildcard entry in front of its marker "-*" (or "*")
LiteralPrefix(e) ==
    IF Len(e) >= 2 /\ e[Len(e) - 1] = "-" THEN SubSeq(e, 1, Len(e) - 2) ELSE SubSeq(e, 1, Len(e) - 1)

\* The text of a wildcard entry "p-*" up to and including the separator: "p-"
PrefixWithSeparator(e) == SubSeq(e, 1, Len(e) - 1)

\* Some wildcard entry "p-*" matches the identifier: the identifier starts with "p-"
MatchedByWildcard(id) ==
    \E i \in 1..Len(mandate.prohibitions.tools) :
        /\ IsWildcardEntry(mandate.prohibitions.tools[i])
        /\ StartsWith(id, PrefixWithSeparator(mandate.prohibitions.tools[i]))

\* Some wildcard entry's text in front of the separator starts the identifier
MatchedByStrippedPrefix(id) ==
    \E i \in 1..Len(mandate.prohibitions.tools) :
        /\ IsWildcardEntry(mandate.prohibitions.tools[i])
        /\ StartsWith(id, LiteralPrefix(mandate.prohibitions.tools[i]))

\* The identifier under which an available tool is known: its id, or its key when it has none
IdOf(key) == IF allTools[key] = <<>> THEN key ELSE allTools[key]

\* The rows the last Tool Gate call wrote
GateRows == SubSeq(auditLog, logMark + 1, Len(auditLog))

IdentityChecks == {"tool_whitelist", "tool_prohibition", "tool_prohibition_wildcard"}

\* C1: a tool is in the resolved set iff it is available, whitelisted, not an exact
\* prohibition and not matched by a wildcard prohibition; the resolved record carries
\* the tool it was given under that key.
C1_ResolvedIffAllowed ==
    filtered.resolved =>
        /\ \A key \in ToolNames :
              key \in DOMAIN filtered.tools <=>
                  /\ key \in DOMAIN allTools
                  /\ Whitelisted(IdOf(key))
                  /\ ~ExactlyProhibited(IdOf(key))
                  /\ ~MatchedByWildcard(IdOf(key))
        /\ \A key \in DOMAIN filtered.tools : filtered.tools[key] = allTools[key]

\* The same equivalence with the match the resolver computes, the entry's text in front
\* of the separator: it holds in every resolved state.
ResolvedIffNoStrippedPrefix ==
    filtered.resolved =>
        /\ \A key \in ToolNames :
              key \in DOMAIN filtered.tools <=>
                  /\ key \in DOMAIN allTools
                  /\ Whitelisted(IdOf(key))
                  /\ ~ExactlyProhibited(IdOf(key))
                  /\ ~MatchedByStrippedPrefix(IdOf(key))
        /\ \A key \in DOMAIN filtered.tools : filtered.tools[key] = allTools[key]

\* C2: a call passes the Tool Gate's identity checks iff its tool is whitelisted, not an
\* exact prohibition and not matched by a wildcard prohibition; and for an available tool
\* called with arguments that mention no prohibited data, the Tool Gate admits the call
\* exactly when the resolver kept the tool.
C2_GateAgreesWithResolver ==
    (filtered.resolved /\ Len(toolCalls) = 1) =>
        LET name == toolCalls[1].toolName
        IN  /\ (GateRows[1].check_name \notin IdentityChecks) <=>
                   (Whitelisted(name) /\ ~ExactlyProhibited(name) /\ ~MatchedByStrippedPrefix(name))
            /\ ((\E key \in DOMAIN allTools : IdOf(key) = name) /\ toolCalls[1].args = {}) =>
                   (~gateOutcome.aborted <=>
                        \E key \in DOMAIN filtered.tools : IdOf(key) = name)

\* C3: under a single wildcard prohibition "p-*", the resolver, the validator and the
\* Tool Gate treat a whitelisted tool as matched exactly when its identifier starts
\* with "p-".
C3_SeparatorPrefix ==
    ( /\ filtered.resolved
      /\ Len(mandate.prohibitions.tools) = 1
      /\ mandate.prohibitions.tools[1] = PayStar ) =>
        LET sep == PrefixWithSeparator(mandate.prohibitions.tools[1])
        IN  /\ \A key \in DOMAIN allTools :
                  Whitelisted(IdOf(key)) =>
                      (key \notin DOMAIN filtered.tools <=> StartsWith(IdOf(key), sep))
            /\ \A id \in ToolNames :
                  Whitelisted(id) =>
                      ([kind |-> "wildcard", tool |-> id] \in ToolCollisionErrors(mandate)
                           <=> StartsWith(id, sep))
            /\ (Len(toolCalls) = 1 /\ Whitelisted(toolCalls[1].toolName)) =>
                  (GateRows[1].check_name = "tool_prohibition_wildcard"
                       <=> StartsWith(toolCalls[1].toolName, sep))

\* C4: an abort raised when retryCount has reached 2 never asks for a retry.
C4_RetryBudget ==
    (gateOutcome.aborted /\ retryCount >= 2) => ~gateOutcome.retry

\* C5: a batch with more calls than max_tool_calls_per_turn is rejected whole, with no
\* call recorded as allowed; a batch within the cap is never rejected for its size.
C5_BatchCap ==
    (filtered.resolved /\ Len(toolCalls) > 0) =>
        IF Len(toolCalls) > mandate.limits.max_tool_calls_per_turn
        THEN /\ gateOutcome.aborted
             /\ gateOutcome.reason.template = "Too many tool calls. Maximum is"
             /\ \A i \in 1..Len(GateRows) : GateRows[i].check_result # "allowed"
        ELSE /\ gateOutcome.reason.template # "Too many tool calls. Maximum is"
             /\ \A i \in 1..Len(GateRows) : GateRows[i].check_name # "tool_call_limit"

\* C5: a batch one call over a cap of 1 was rejected
C5_Witness ==
    /\ Len(toolCalls) = 2
    /\ mandate.limits.max_tool_calls_per_turn = 1
    /\ gateOutcome.aborted
    /\ Len(GateRows) = 1

\* C6: every call the Tool Gate examines gets exactly one audit row, with a check name,
\* a result and a detail; the rows follow the calls in order; only the last row can be
\* "blocked", and it is "blocked" exactly when the stage aborted, so a blocked call has
\* no "allowed" row.
C6_EveryDecisionAudited ==
    LET rows == GateRows
    IN  /\ \A i \in 1..Len(rows) :
              /\ rows[i].check_name # Null
              /\ rows[i].check_result \in {"allowed", "blocked"}
              /\ rows[i].check_detail # NullDetail
        /\ toolCalls = <<>> => rows = <<>>
        /\ (toolCalls # <<>> /\ Len(toolCalls) > mandate.limits.max_tool_calls_per_turn) =>
              /\ Len(rows) = 1
              /\ rows[1].check_name = "tool_call_limit"
              /\ rows[1].check_result = "blocked"
        /\ (toolCalls # <<>> /\ Len(toolCalls) <= mandate.limits.max_tool_calls_per_turn) =>
              /\ Len(rows) \in 1..Len(toolCalls)
              /\ \A i \in 1..(Len(rows) - 1) : rows[i].check_result = "allowed"
              /\ rows[Len(rows)].check_result = "blocked" <=> gateOutcome.aborted
              /\ ~gateOutcome.aborted => Len(rows) = Len(toolCalls)
              /\ \A i \in 1..Len(rows) :
                    rows[i].check_name # "data_prohibition" =>
                        rows[i].check_detail.tool = toolCalls[i].toolName

\* C6: a batch of two calls whose first call was allowed and whose second was blocked
C6_Witness ==
    /\ Len(toolCalls) = 2
    /\ Len(GateRows) = 2
    /\ GateRows[1].check_result = "allowed"
    /\ GateRows[2].check_result = "blocked"
    /\ gateOutcome.aborted


----------------------------------------------------------------------------
(* Properties of the Limits stage (LimitsSpec) *)

Tracked(s) == s \in DOMAIN activeSessions

\* Which input of its session an arriving input is, counted from the session's first
Ordinal(s) == IF Tracked(s) THEN activeSessions[s].turns + 1 ELSE 1

\* Milliseconds since the session's start when an input arrives (a new session starts now)
ElapsedMs(s) == IF Tracked(s) THEN now - activeSessions[s].startedAt ELSE 0

Today == now \div MsPerDay

\* The daily counter as it counts for the current calendar day
UsedToday == IF lastResetDate = Today THEN dailyTokensUsed ELSE 0

WouldExceedCap(s) ==
    ~Tracked(s) /\ Cardinality(DOMAIN activeSessions) >= mandate.limits.max_concurrent_sessions

BeyondTurnLimit(s) == Ordinal(s) > mandate.limits.max_turns_per_session

BeyondTimeout(s) == ElapsedMs(s) > mandate.limits.timeout_seconds * MsPerSecond

HardAbort(reason) ==
    /\ limitsOutcome'.aborted
    /\ ~limitsOutcome'.retry
    /\ limitsOutcome'.reason = reason

C8_ConcurrencyCap ==
    /\ [](Cardinality(DOMAIN activeSessions) <= mandate.limits.max_concurrent_sessions)
    /\ [][ \A s \in SessionIds :
             (ProcessInput(s) /\ WouldExceedCap(s)) =>
                /\ HardAbort(ConcurrentReason)
                /\ activeSessions' = activeSessions
         ]_vars

\* C8: with two sessions tracked under a cap of 2, a third session id was turned away
C8_Witness ==
    /\ mandate.limits.max_concurrent_sessions = 2
    /\ Cardinality(DOMAIN activeSessions) = 2
    /\ limitsOutcome.reason = ConcurrentReason
    /\ limitsOutcome.sessionId \notin DOMAIN activeSessions

\* C9: an input arriving more than timeout_seconds after its session's start is
\* hard-aborted with the timeout message and the session is evicted; an input within
\* timeout_seconds is never aborted for this reason.
C9_TimeoutAbort ==
    [][ \A s \in SessionIds :
          ProcessInput(s) =>
            /\ BeyondTimeout(s) =>
                  (HardAbort(TimeoutReason) /\ s \notin DOMAIN activeSessions')
            /\ ~BeyondTimeout(s) => limitsOutcome'.reason # TimeoutReason
      ]_vars

\* C9 as amended: the input is hard-aborted and the session evicted; the message is the
\* timeout message unless the same input also exceeds max_turns_per_session, which is
\* checked first and gives the session-limit message.
C9_TimeoutAfterTurnLimit ==
    [][ \A s \in SessionIds :
          ProcessInput(s) =>
            /\ BeyondTimeout(s) =>
                  /\ HardAbort(IF BeyondTurnLimit(s) THEN SessionLimitReason(mandate.limits) ELSE TimeoutReason)
                  /\ s \notin DOMAIN activeSessions'
            /\ ~BeyondTimeout(s) => limitsOutcome'.reason # TimeoutReason
      ]_vars

\* C9: an input was aborted for the timeout and its session is gone
C9_Witness ==
    /\ limitsOutcome.op = "input"
    /\ limitsOutcome.reason = TimeoutReason
    /\ limitsOutcome.sessionId \notin DOMAIN activeSessions

\* C10: an input is hard-aborted with the daily-budget message whenever the daily counter
\* has reached token_budget_daily on the current calendar day, never for this reason
\* below the budget, and the first call of a new day resets the counter before the check.
C10_DailyBudget ==
    [][ \A s \in SessionIds :
          ProcessInput(s) =>
            /\ UsedToday >= mandate.limits.token_budget_daily => HardAbort(DailyBudgetReason)
            /\ UsedToday < mandate.limits.token_budget_daily
                  => limitsOutcome'.reason # DailyBudgetReason
            /\ lastResetDate # Today =>
                  (dailyTokensUsed' = 0 /\ lastResetDate' = Today)
      ]_vars

\* C10 as amended: with the counter at the budget the input is hard-aborted, with the
\* daily-budget message unless an earlier check of the same call aborts it first
\* (concurrency cap, turn limit, timeout, in that order).
C10_DailyBudgetAfterEarlierChecks ==
    [][ \A s \in SessionIds :
          ProcessInput(s) =>
            /\ UsedToday >= mandate.limits.token_budget_daily =>
                  HardAbort(IF WouldExceedCap(s) THEN ConcurrentReason
                            ELSE IF BeyondTurnLimit(s) THEN SessionLimitReason(mandate.limits)
                            ELSE IF BeyondTimeout(s) THEN TimeoutReason
                            ELSE DailyBudgetReason)
            /\ UsedToday < mandate.limits.token_budget_daily
                  => limitsOutcome'.reason # DailyBudgetReason
            /\ lastResetDate # Today =>
                  (dailyTokensUsed' = 0 /\ lastResetDate' = Today)
      ]_vars

\* C10: an input was aborted for the daily budget, the counter being at the budget
C10_Witness ==
    /\ limitsOutcome.op = "input"
    /\ limitsOutcome.reason = DailyBudgetReason
    /\ dailyTokensUsed >= mandate.limits.token_budget_daily
    /\ lastResetDate = Today


\* Math.ceil(length / 4) of a response, as the claims state it
CeilQuarter(text) == IF Len(text) % 4 = 0 THEN Len(text) \div 4 ELSE Len(text) \div 4 + 1

FirstChars(text, n) == SubSeq(text, 1, IF Len(text) < n THEN Len(text) ELSE n)

\* C11: a final response whose estimate ceil(length/4) exceeds max_tokens_per_turn comes
\* back as its first max_tokens_per_turn*4 characters followed by the truncation marker,
\* and the stage applied to that result returns it again; a response whose estimate is
\* within the cap comes back unchanged.
C11_Truncation ==
    [][ \A text \in Texts :
          ProcessResult(TRUE, text) =>
            IF CeilQuarter(text) > mandate.limits.max_tokens_per_turn
            THEN /\ limitsOutcome'.text =
                       FirstChars(text, mandate.limits.max_tokens_per_turn * 4) \o TruncationMarker
                 /\ LimitsResult(mandate.limits, TRUE, limitsOutcome'.text,
                                 CurrentLimitsState, now).text = limitsOutcome'.text
            ELSE limitsOutcome'.text = text
      ]_vars

\* C11: a response of more than max_tokens_per_turn*4 characters came back truncated
C11_Witness ==
    /\ limitsOutcome.op = "result"
    /\ Len(limitsOutcome.text) = mandate.limits.max_tokens_per_turn * 4 + Len(TruncationMarker)
    /\ SubSeq(limitsOutcome.text, mandate.limits.max_tokens_per_turn * 4 + 1,
              Len(limitsOutcome.text)) = TruncationMarker

\* C12: Limits on result never aborts; it adds ceil(length/4) to the daily counter exactly
\* when that estimate is at most max_tokens_per_turn, and when it truncates it leaves the
\* daily counter and every session entry unchanged.
C12_ResultAccounting ==
    [][ \A text \in Texts :
          ProcessResult(TRUE, text) =>
            /\ ~limitsOutcome'.aborted
            /\ activeSessions' = activeSessions
            /\ IF CeilQuarter(text) <= mandate.limits.max_tokens_per_turn
               THEN dailyTokensUsed' = dailyTokensUsed + CeilQuarter(text)
               ELSE dailyTokensUsed' = dailyTokensUsed
      ]_vars

\* C12 as amended: the counter the estimate is added to, or that is left alone, is the
\* daily counter after the lazy reset that opens the call (zero on a new calendar day).
C12_ResultAccountingAfterReset ==
    [][ \A text \in Texts :
          ProcessResult(TRUE, text) =>
            /\ ~limitsOutcome'.aborted
            /\ activeSessions' = activeSessions
            /\ lastResetDate' = Today
            /\ IF CeilQuarter(text) <= mandate.limits.max_tokens_per_turn
               THEN dailyTokensUsed' = UsedToday + CeilQuarter(text)
               ELSE dailyTokensUsed' = UsedToday
      ]_vars

\* C12: a result within the cap was accounted on a day that already had usage
C12_Witness ==
    /\ limitsOutcome.op = "result"
    /\ limitsOutcome.text # <<>>
    /\ Len(limitsOutcome.text) <= mandate.limits.max_tokens_per_turn * 4
    /\ dailyTokensUsed > CeilQuarter(limitsOutcome.text)
    /\ activeSessions # NoSessions


----------------------------------------------------------------------------
(* Message texts as sequences of tokens *)

\* String.prototype.toLowerCase, token by token
Lower(token) ==
    CASE token = "Crime" -> "crime"
      [] token = "Visa" -> "visa"
      [] token = "Texas" -> "texas"
      [] token = "Wikipedia" -> "wikipedia"
      [] token = "Reddit" -> "reddit"
      [] token = "Section" -> "section"
      [] token = "Advise" -> "advise"
      [] token = "Solicitor" -> "solicitor"
      [] token = "Dear " -> "dear "
      [] token = "DRAFT" -> "draft"
      [] token = "Deadline" -> "deadline"
      [] OTHER -> token

ToLowerCase(text) == [i \in 1..Len(text) |-> Lower(text[i])]

\* String.prototype.includes
IncludesText(text, part) == IndexOf(text, part) # 0

\* label.replace(/_/g, " ")
ReplaceUnderscores(label) == [i \in 1..Len(label) |-> IF label[i] = "_" THEN " " ELSE label[i]]

\* Array.prototype.join
RECURSIVE Join(_, _)
Join(parts, sep) ==
    IF parts = <<>> THEN <<>>
    ELSE IF Len(parts) = 1 THEN parts[1]
    ELSE parts[1] \o sep \o Join(Tail(parts), sep)

\* messages.findLastIndex(m => m.role === role), 1-based; 0 when there is none
FindLastIndex(msgs, role) ==
    LET hits == { i \in 1..Len(msgs) : msgs[i].role = role }
    IN  IF hits = {} THEN 0 ELSE CHOOSE i \in hits : \A j \in hits : j <= i

\* Object.assign over the values of a registry, in insertion order: the last pack that
\* registers a key gives its value
ObjectAssign(records) ==
    LET keys == UNION { DOMAIN records[i] : i \in 1..Len(records) }
        last(k) == CHOOSE i \in 1..Len(records) :
                      /\ k \in DOMAIN records[i]
                      /\ \A j \in 1..Len(records) : k \in DOMAIN records[j] => j <= i
    IN  [k \in keys |-> records[last(k)][k]]

StagePassed == [aborted |-> FALSE, retry |-> FALSE, reason |-> <<>>]

----------------------------------------------------------------------------
(* src/mandate/processors/escalation.processor.ts *)

RefusingActions == {"refuse_and_redirect", "refuse"}

\* mandate.escalation.triggers.filter(t => t.condition === "topic_match")
RECURSIVE TopicTriggers(_)
TopicTriggers(triggers) ==
    IF triggers = <<>> THEN <<>>
    ELSE IF Head(triggers).condition = "topic_match"
         THEN <<Head(triggers)>> \o TopicTriggers(Tail(triggers))
         ELSE TopicTriggers(Tail(triggers))

\* mandate.escalation.triggers.find(t => t.condition === "user_distress_detected"):
\* its index, 0 when there is none
DistressTriggerIndex(triggers) ==
    LET hits == { i \in 1..Len(triggers) : triggers[i].condition = "user_distress_detected" }
    IN  IF hits = {} THEN 0 ELSE CHOOSE i \in hits : \A j \in hits : i <= j

\* trigger.topics.flatMap(topic => allExpansions[topic] || [topic.replace(/_/g, " ")])
RECURSIVE ExpandTopics(_, _)
ExpandTopics(topics, allExpansions) ==
    IF topics = <<>> THEN <<>>
    ELSE (IF Head(topics) \in DOMAIN allExpansions
          THEN allExpansions[Head(topics)]
          ELSE <<ReplaceUnderscores(Head(topics))>>)
         \o ExpandTopics(Tail(topics), allExpansions)

\* trigger.condition + "-" + trigger.topics.join(",")
TopicKey(trigger) == <<trigger.condition, "-">> \o Join(trigger.topics, <<",">>)

\* Map.prototype.set on a map kept in insertion order: a key already present keeps its
\* place and takes the new value
OrderedSet(entries, key, value) ==
    IF \E i \in 1..Len(entries) : entries[i].key = key
    THEN [i \in 1..Len(entries) |->
             IF entries[i].key = key THEN [key |-> key, value |-> value] ELSE entries[i]]
    ELSE Append(entries, [key |-> key, value |-> value])

\* The loop that fills topicKeywords; a trigger without topics is skipped
RECURSIVE TopicKeywords(_, _, _)
TopicKeywords(topicTriggers, allExpansions, entries) ==
    IF topicTriggers = <<>> THEN entries
    ELSE LET trigger == Head(topicTriggers)
         IN  IF ~trigger.hasTopics
             THEN TopicKeywords(Tail(topicTriggers), allExpansions, entries)
             ELSE TopicKeywords(Tail(topicTriggers), allExpansions,
                      OrderedSet(entries, TopicKey(trigger),
                                 [ keywords |-> ExpandTopics(trigger.topics, allExpansions),
                                   trigger |-> trigger ]))

DistressKeywords ==
    << <<"desperate">>,
       <<"no", " ", "way", " ", "out">>,
       <<"can't", " ", "take", " ", "it">>,
       <<"losing", " ", "everything">>,
       <<"threat">>,
       <<"threatened">>,
       <<"scared", " ", "for", " ", "my", " ", "life">>,
       <<"help", " ", "me", " ", "please">>,
       <<"don't", " ", "know", " ", "what", " ", "to", " ", "do">>,
       <<"emergency">> >>

\* keywords.some(kw => lowerText.includes(kw))
SomeKeyword(keywords, lowerText) ==
    \E i \in 1..Len(keywords) : IncludesText(lowerText, keywords[i])

\* trigger.message, with "\n\n" and the resources joined by "\n" when the trigger has any
MessageWithResources(trigger) ==
    IF trigger.hasResources
    THEN trigger.message \o <<"\n\n">> \o Join(trigger.resources, <<"\n">>)
    ELSE trigger.message

\* The first entry of topicKeywords with a keyword in the text, 0 when there is none
FirstMatchedEntry(entries, lowerText) ==
    LET hits == { i \in 1..Len(entries) : SomeKeyword(entries[i].value.keywords, lowerText) }
    IN  IF hits = {} THEN 0 ELSE CHOOSE i \in hits : \A j \in hits : i <= j

\* EscalationInput with messages.find for messages.findLast
EscalationInputFirstMessage(m, registered, msgs) ==
    LET users == { i \in 1..Len(msgs) : msgs[i].role = "user" }
        idx == IF users = {} THEN 0 ELSE CHOOSE i \in users : \A j \in users : i <= j
        entries == TopicKeywords(TopicTriggers(m.escalation.triggers), ObjectAssign(registered), <<>>)
        distress == DistressTriggerIndex(m.escalation.triggers)
    IN  IF idx = 0 THEN StagePassed
        ELSE LET lowerText == ToLowerCase(msgs[idx].content)
                 hit == FirstMatchedEntry(entries, lowerText)
             IN  IF hit # 0 /\ entries[hit].value.trigger.action \in RefusingActions
                 THEN Abort(MessageWithResources(entries[hit].value.trigger), FALSE)
                 ELSE IF distress # 0 /\ SomeKeyword(DistressKeywords, lowerText)
                 THEN Abort(MessageWithResources(m.escalation.triggers[distress]), FALSE)
                 ELSE StagePassed

\* createEscalationProcessor(mandate).processInput: the loop over topicKeywords stops at
\* the first entry that matches, whatever its action
EscalationInput(m, registered, msgs) ==
    LET idx == FindLastIndex(msgs, "user")
        entries == TopicKeywords(TopicTriggers(m.escalation.triggers), ObjectAssign(registered), <<>>)
        distress == DistressTriggerIndex(m.escalation.triggers)
    IN  IF idx = 0 THEN StagePassed
        ELSE LET lowerText == ToLowerCase(msgs[idx].content)
                 hit == FirstMatchedEntry(entries, lowerText)
             IN  IF hit # 0 /\ entries[hit].value.trigger.action \in RefusingActions
                 THEN Abort(MessageWithResources(entries[hit].value.trigger), FALSE)
                 ELSE IF distress # 0 /\ SomeKeyword(DistressKeywords, lowerText)
                 THEN Abort(MessageWithResources(m.escalation.triggers[distress]), FALSE)
                 ELSE StagePassed

----------------------------------------------------------------------------
(* src/mandate/processors/scope.processor.ts *)

\* keywords.some(kw => lowerText.includes(kw.toLowerCase()))
SomeKeywordLowered(keywords, lowerText) ==
    \E i \in 1..Len(keywords) : IncludesText(lowerText, ToLowerCase(keywords[i]))

\* Some registered scope outside the allowed set has a keyword in the text
UnsupportedScopeMatched(m, allScopeKeywords, lowerText) ==
    \E scope \in DOMAIN allScopeKeywords :
        /\ scope \notin SeqToSet(m.scope.allowed)
        /\ SomeKeywordLowered(allScopeKeywords[scope], lowerText)

\* ScopeInput with warn_and_attempt treated as refuse
ScopeInputAlwaysRefuses(m, registered, msgs) ==
    LET idx == FindLastIndex(msgs, "user")
    IN  IF idx = 0 THEN StagePassed
        ELSE IF UnsupportedScopeMatched(m, ObjectAssign(registered), ToLowerCase(msgs[idx].content))
        THEN Abort(m.scope.escalation_message, FALSE)
        ELSE StagePassed

\* createScopeProcessor(mandate).processInput: the loop stops at the first scope that
\* matches, and every such scope is handled alike
ScopeInput(m, registered, msgs) ==
    LET idx == FindLastIndex(msgs, "user")
    IN  IF idx = 0 THEN StagePassed
        ELSE IF /\ UnsupportedScopeMatched(m, ObjectAssign(registered),
                                           ToLowerCase(msgs[idx].content))
                /\ m.scope.behavior_on_unsupported \in {"refuse", "escalate"}
        THEN Abort(m.scope.escalation_message, FALSE)
        ELSE StagePassed


----------------------------------------------------------------------------
(* The Escalation and Scope stages of one agent: policies, registries, histories *)

CrimeTopic == <<"crime">>
VisaTopic == <<"visa">>
TaxLawTopic == <<"tax", "_", "law">>

Trigger(condition, hasTopics, topics, action, message, hasResources, resources) ==
    [ condition |-> condition, hasTopics |-> hasTopics, topics |-> topics, action |-> action,
      message |-> message, hasResources |-> hasResources, resources |-> resources ]

RefuseCrime ==
    Trigger("topic_match", TRUE, <<CrimeTopic>>, "refuse", <<"M1">>, TRUE, << <<"R1">>, <<"R2">> >>)
WarnVisa == Trigger("topic_match", TRUE, <<VisaTopic>>, "warn_user", <<"M2">>, FALSE, <<>>)
RedirectTax ==
    Trigger("topic_match", TRUE, <<TaxLawTopic>>, "refuse_and_redirect", <<"M3">>, FALSE, <<>>)
WarnCrime == Trigger("topic_match", TRUE, <<CrimeTopic>>, "warn_user", <<"M4">>, FALSE, <<>>)
DistressDetected ==
    Trigger("user_distress_detected", FALSE, <<>>, "provide_resources", <<"M5">>, TRUE, << <<"R3">> >>)

Triggers == {RefuseCrime, WarnVisa, RedirectTax, WarnCrime, DistressDetected}

MaxTriggers == 2

TriggerLists == UNION { [1..n -> Triggers] : n \in 0..MaxTriggers }

\* What skill packs registered through registerEscalationKeywords
ExpansionRegistries ==
    { <<>>,
      << [t \in {CrimeTopic} |-> << <<"fraud">> >>] >>,
      << [t \in {CrimeTopic} |-> << <<"fraud">> >>],
         [t \in {CrimeTopic, VisaTopic} |-> IF t = CrimeTopic THEN << <<"crime">>, <<"fraud">> >>
                                             ELSE << <<"Visa">> >>] >> }

\* What skill packs registered through registerScopeKeywords
ScopeRegistries ==
    { <<>>,
      << [sc \in {"uk", "us"} |-> IF sc = "uk" THEN << <<"england">> >> ELSE << <<"Texas">> >>] >>,
      << [sc \in {"uk", "us"} |-> IF sc = "uk" THEN << <<"england">> >> ELSE << <<"Texas">> >>],
         [sc \in {"us"} |-> << <<"visa">> >>] >> }

ScopeChoices ==
    [ allowed : {<<>>, <<"uk">>, <<"uk", "us">>},
      behavior_on_unsupported : {"escalate", "refuse", "warn_and_attempt"},
      escalation_message : {<<"M0">>} ]

DefaultScope ==
    [allowed |-> <<"uk">>, behavior_on_unsupported |-> "refuse", escalation_message |-> <<"M0">>]

UserTexts ==
    { <<"hello">>, <<"crime">>, <<"Crime">>, <<"visa", " ", "crime">>, <<"tax", " ", "law">>,
      <<"fraud">>, <<"Visa">>, <<"emergency">>, <<"england">>, <<"Texas">>,
      <<"england", " ", "texas">> }

Message(role, content) == [role |-> role, content |-> content]

InputMessages ==
    { Message("user", text) : text \in UserTexts } \cup { Message("assistant", <<"hello">>) }

MaxHistory == 2

\* The policy of an agent whose input stages are exercised
InputMandate(triggers, scope) ==
    [ capabilities |-> [tools |-> <<>>],
      prohibitions |-> [tools |-> <<>>, data |-> <<>>],
      limits |-> DefaultLimits,
      scope |-> scope,
      escalation |-> [triggers |-> triggers] ]

InputInit ==
    /\ \/ /\ \E triggers \in TriggerLists : mandate = InputMandate(triggers, DefaultScope)
          /\ registeredExpansions \in ExpansionRegistries
          /\ registeredScopeKeywords = <<>>
       \/ /\ \E scope \in ScopeChoices : mandate = InputMandate(<<>>, scope)
          /\ registeredExpansions = <<>>
          /\ registeredScopeKeywords \in ScopeRegistries
    /\ registeredPatterns = <<>>
    /\ processors = NoProcessors
    /\ messages = <<>>
    /\ stageOutcome = NoStageOutcome
    /\ ToolsIdle
    /\ LimitsIdle
    /\ CoreIdle

StageResult(stage, outcome, msgs) ==
    [ stage |-> stage, aborted |-> outcome.aborted, retry |-> outcome.retry,
      reason |-> outcome.reason, messages |-> msgs ]

\* The conversation grows by a message and the input hook hands the list to the
\* Escalation stage
Escalation(msg) ==
    /\ Len(messages) < MaxHistory
    /\ messages' = Append(messages, msg)
    /\ stageOutcome' = StageResult("escalation",
                                   EscalationInput(mandate, registeredExpansions, messages'),
                                   messages')
    /\ UNCHANGED <<registeredExpansions, registeredScopeKeywords, registeredPatterns, processors>>
    /\ UNCHANGED toolVars
    /\ UNCHANGED limitVars
    /\ UNCHANGED coreVars

\* The conversation grows by a message and the input hook hands the list to the Scope stage
Scope(msg) ==
    /\ Len(messages) < MaxHistory
    /\ messages' = Append(messages, msg)
    /\ stageOutcome' = StageResult("scope",
                                   ScopeInput(mandate, registeredScopeKeywords, messages'),
                                   messages')
    /\ UNCHANGED <<registeredExpansions, registeredScopeKeywords, registeredPatterns, processors>>
    /\ UNCHANGED toolVars
    /\ UNCHANGED limitVars
    /\ UNCHANGED coreVars

InputNext ==
    \/ \E msg \in InputMessages : Escalation(msg)
    \/ \E msg \in InputMessages : Scope(msg)

InputSpec == InputInit /\ [][InputNext]_vars


----------------------------------------------------------------------------
(* Properties of the Escalation and Scope stages (InputSpec) *)

\* The text of the latest user message, lowercased; <<>> with HasUserMessage false
HasUserMessage == FindLastIndex(messages, "user") # 0

LatestUserText ==
    IF HasUserMessage THEN ToLowerCase(messages[FindLastIndex(messages, "user")].content)
    ELSE <<>>

\* The keywords of a topic: its registered expansion, else its label with spaces
KeywordsOfTopic(topic) ==
    LET all == ObjectAssign(registeredExpansions)
    IN  IF topic \in DOMAIN all THEN SeqToSet(all[topic]) ELSE {ReplaceUnderscores(topic)}

\* The latest user message contains a keyword of the trigger
TriggerMatches(trigger) ==
    /\ HasUserMessage
    /\ trigger.condition = "topic_match"
    /\ trigger.hasTopics
    /\ \E i \in 1..Len(trigger.topics) :
          \E kw \in KeywordsOfTopic(trigger.topics[i]) : IncludesText(LatestUserText, kw)

MatchingRefusals ==
    { t \in SeqToSet(mandate.escalation.triggers) :
          TriggerMatches(t) /\ t.action \in RefusingActions }

\* C13: whenever the latest user message contains a keyword of a topic_match trigger whose
\* action is refuse or refuse_and_redirect, Escalation hard-aborts with the message (plus
\* resources) of such a trigger, whatever other triggers the policy lists and in whatever
\* order.
C13_RefusalAlwaysAborts ==
    (stageOutcome.stage = "escalation" /\ MatchingRefusals # {}) =>
        /\ stageOutcome.aborted
        /\ ~stageOutcome.retry
        /\ \E t \in MatchingRefusals : stageOutcome.reason = MessageWithResources(t)

\* C14: the Escalation decision is the decision on the latest user message alone: the
\* same abort or pass, with the same reason, whatever the earlier turns contain.
C14_LatestMessageOnly ==
    stageOutcome.stage = "escalation" =>
        LET idx == FindLastIndex(messages, "user")
            alone == EscalationInput(mandate, registeredExpansions,
                                     IF idx = 0 THEN <<>> ELSE <<messages[idx]>>)
        IN  /\ stageOutcome.aborted = alone.aborted
            /\ stageOutcome.retry = alone.retry
            /\ stageOutcome.reason = alone.reason

\* C14: an earlier user turn named a refused topic, the latest one does not, and the
\* input passed
C14_Witness ==
    /\ stageOutcome.stage = "escalation"
    /\ Len(messages) = 2
    /\ messages[1] = Message("user", <<"crime">>)
    /\ messages[2] = Message("user", <<"hello">>)
    /\ mandate.escalation.triggers = <<RefuseCrime>>
    /\ registeredExpansions = <<>>
    /\ ~stageOutcome.aborted

\* Some registered scope outside the policy's allowed set has a keyword in the latest
\* user message, letter case aside
MatchesUnsupportedScope ==
    LET all == ObjectAssign(registeredScopeKeywords)
    IN  /\ HasUserMessage
        /\ \E scope \in DOMAIN all :
              /\ ~(\E i \in 1..Len(mandate.scope.allowed) : mandate.scope.allowed[i] = scope)
              /\ \E i \in 1..Len(all[scope]) :
                    IncludesText(LatestUserText, ToLowerCase(all[scope][i]))

\* C15: a latest user message that matches a keyword of a registered scope outside the
\* allowed set is hard-aborted with the escalation message under refuse and escalate, and
\* passes with the messages unchanged under warn_and_attempt; a message that matches
\* allowed scopes only, or none, is never aborted.
C15_ScopeBehaviour ==
    stageOutcome.stage = "scope" =>
        IF MatchesUnsupportedScope /\ mandate.scope.behavior_on_unsupported # "warn_and_attempt"
        THEN /\ stageOutcome.aborted
             /\ ~stageOutcome.retry
             /\ stageOutcome.reason = mandate.scope.escalation_message
        ELSE /\ ~stageOutcome.aborted
             /\ stageOutcome.messages = messages

\* C15: a message naming a scope outside the allowed set passed under warn_and_attempt
C15_Witness ==
    /\ stageOutcome.stage = "scope"
    /\ MatchesUnsupportedScope
    /\ mandate.scope.behavior_on_unsupported = "warn_and_attempt"
    /\ mandate.scope.allowed = <<"uk">>
    /\ ~stageOutcome.aborted


----------------------------------------------------------------------------
(* Response texts: the length of a text in characters *)

\* The number of characters of a token: "A*199" is "A".repeat(199), "warning-sign" the two
\* code units of the warning emoji, any token not listed a single character
TokenLength(token) ==
    CASE token = "A*199" -> 199
      [] token = "A*300" -> 300
      [] token = "\n\n---\n\n" -> 7
      [] token = "\n\n---\n" -> 6
      [] token = "warning-sign" -> 2
      [] token = "s.213" -> 5
      [] token = "https://example.com" -> 19
      [] token = "Act" -> 3
      [] token = "act" -> 3
      [] token = "2004" -> 4
      [] token = "Section" -> 7
      [] token = "section" -> 7
      [] token = "21" -> 2
      [] token = "v." -> 2
      [] token = "legislation.gov.uk" -> 18
      [] token = "wikipedia.org" -> 13
      [] token = "Wikipedia" -> 9
      [] token = "wikipedia" -> 9
      [] token = "Reddit" -> 6
      [] token = "reddit" -> 6
      [] token = "reddit.com" -> 10
      [] token = "blog" -> 4
      [] token = "blogs" -> 5
      [] token = "medium.com" -> 10
      [] token = "legal" -> 5
      [] token = "forums" -> 6
      [] token = "Dear " -> 5
      [] token = "dear " -> 5
      [] token = "DRAFT" -> 5
      [] token = "draft" -> 5
      [] token = "Deadline" -> 8
      [] token = "deadline" -> 8
      [] token = "statute" -> 7
      [] token = "send" -> 4
      [] token = "letter" -> 6
      [] token = "not legal advice" -> 16
      [] token = "AI generated" -> 12
      [] token = "Please have this reviewed" -> 25
      [] token = "**" -> 2
      [] token = "hello" -> 5
      [] OTHER -> 1

\* text.length
RECURSIVE CharLength(_)
CharLength(text) == IF text = <<>> THEN 0 ELSE TokenLength(Head(text)) + CharLength(Tail(text))

\* A regular expression is kept as the set of token runs of the universe that it matches;
\* pattern.test(text) for a pattern without the i flag
TestPattern(instances, text) == \E inst \in instances : IncludesText(text, inst)

\* pattern.test(text) for a pattern with the i flag, instances written in lowercase
TestPatternIgnoreCase(instances, text) == TestPattern(instances, ToLowerCase(text))

----------------------------------------------------------------------------
(* src/mandate/processors/citation.processor.ts *)

SubstantiveChars == 200

Wikipedia == <<"wikipedia">>
Reddit == <<"reddit">>
SocialMedia == <<"social", "_", "media">>
Blogs == <<"blogs">>
LegalForums == <<"legal", "_", "forums">>

\* new RegExp(source.replace(/_/g, "[\\s_]"), "i").test(text): the label occurs in the
\* text, letter case aside, an underscore of the label standing for white space or itself
GenericSourceMatch(source, text) ==
    \E i \in 1..(Len(text) - Len(source) + 1) :
        \A j \in 1..Len(source) :
            IF source[j] = "_"
            THEN text[i + j - 1] \in {" ", "_", "\n", "\t"}
            ELSE Lower(text[i + j - 1]) = Lower(source[j])

\* blockedPatterns: some pattern of the source matches the text
BlockedSourceMatch(source, text) ==
    IF source = Wikipedia
    THEN TestPatternIgnoreCase({<<"wikipedia.org">>, <<"wikipedia">>}, text)
    ELSE IF source = Reddit
    THEN TestPatternIgnoreCase({<<"reddit.com">>, <<"reddit">>}, text)
    ELSE IF source = SocialMedia
    THEN TestPatternIgnoreCase({<<"twitter.com">>, <<"x.com">>, <<"facebook.com">>,
                                <<"instagram.com">>, <<"tiktok.com">>}, text)
    ELSE IF source = Blogs
    THEN TestPatternIgnoreCase({<<"blog">>, <<"medium.com">>, <<"wordpress.com">>}, text)
    ELSE GenericSourceMatch(source, text)

\* The first blocked source with a matching pattern, 0 when there is none
FirstBlockedSource(blockedSources, text) ==
    LET hits == { i \in 1..Len(blockedSources) : BlockedSourceMatch(blockedSources[i], text) }
    IN  IF hits = {} THEN 0 ELSE CHOOSE i \in hits : \A j \in hits : i <= j

\* citationPatterns.some(p => p.test(text))
HasCitations(text) ==
    \/ TestPattern({ <<"Act", " ", "2004">>, <<"s.213">>, <<"v.", " ">>,
                     <<"https://example.com">> }, text)
    \/ TestPatternIgnoreCase({ <<"section", " ", "21">>, <<"legislation.gov.uk">> }, text)

\* IsSubstantive with >= for >
IsSubstantiveFrom200(text) == CharLength(text) >= SubstantiveChars

\* text.length > 200
IsSubstantive(text) == CharLength(text) > SubstantiveChars

LacksCitationsReason ==
    << "Response lacks citations. All substantive legal information must cite ",
       "relevant legislation, case law, or authoritative sources." >>

\* BlockedAbort that asks for a retry whatever retryCount is
BlockedAbortAlwaysRetry(citationConfig, source, rc) ==
    Abort(<<"Response references \"">> \o source \o
          <<"\" which is a blocked source. Use authoritative sources only: ">> \o
          Join(citationConfig.allowed_sources, <<", ">>), TRUE)

\* The abort of check 1, by retryCount
BlockedAbort(citationConfig, source, rc) ==
    IF rc < 2
    THEN Abort(<<"Response references \"">> \o source \o
               <<"\" which is a blocked source. Use authoritative sources only: ">> \o
               Join(citationConfig.allowed_sources, <<", ">>), TRUE)
    ELSE Abort(<<"I'm unable to provide a response using only authoritative sources for this query.">>,
               FALSE)

\* createCitationProcessor(mandate).processOutputResult; the stage returns the messages it
\* was given
CitationResult(m, msgs, rc) ==
    LET citationConfig == m.requirements.citations
        idx == FindLastIndex(msgs, "assistant")
    IN  IF ~citationConfig.required \/ idx = 0 THEN StagePassed
        ELSE LET text == msgs[idx].content
                 blocked == FirstBlockedSource(citationConfig.blocked_sources, text)
             IN  IF blocked # 0
                 THEN BlockedAbort(citationConfig, citationConfig.blocked_sources[blocked], rc)
                 ELSE IF IsSubstantive(text) /\ ~HasCitations(text) /\ rc < 2
                 THEN Abort(LacksCitationsReason, TRUE)
                 ELSE StagePassed


----------------------------------------------------------------------------
(* src/mandate/processors/disclaimer.processor.ts *)

DocumentChars == 500

\* /\b(dear |to whom|re:|subject:)/i
LetterHeading == { <<"dear ">>, <<"to whom">>, <<"re:">>, <<"subject:">> }

\* /\bunder\s+(section|§)|statute|legal right|regulation/i
ClaimLanguage ==
    { <<"under", " ", "section">>, <<"statute">>, <<"legal right">>, <<"regulation">> }

\* reviewTriggerPatterns.send_correspondence: a sending verb, then on the same line a word
\* for a letter
SendsCorrespondence(text) ==
    \E i \in 1..Len(text) : \E j \in (i + 1)..Len(text) :
        /\ Lower(text[i]) \in {"send", "dispatch", "email", "post", "deliver"}
        /\ Lower(text[j]) \in {"letter", "correspondence", "notice"}
        /\ \A k \in i..j : text[k] # "\n"

\* reviewTriggerPatterns[trigger]; a trigger without a pattern never matches
ReviewTriggerMatch(trigger, text) ==
    IF trigger = "finalize_document"
    THEN TestPatternIgnoreCase(LetterHeading \cup { <<"letter before action">>,
                               <<"formal grievance">>, <<"cease and desist">>, <<"draft">> }, text)
    ELSE IF trigger = "send_correspondence" THEN SendsCorrespondence(text)
    ELSE IF trigger = "provide_deadline"
    THEN TestPatternIgnoreCase({ <<"deadline">>, <<"expires">>, <<"expire">>, <<"time limit">>,
                                 <<"must act before">> }, text)
    ELSE FALSE

\* shouldTrigger of one disclaimer rule for the text as it stands
ShouldTrigger(disclaimer, text) ==
    IF disclaimer.trigger = "always" THEN TRUE
    ELSE IF disclaimer.trigger = "on_document_generation"
    THEN CharLength(text) > DocumentChars \/ TestPatternIgnoreCase(LetterHeading, text)
    ELSE IF disclaimer.trigger \in {"on_claim", "on_legal_claim"}
    THEN TestPatternIgnoreCase(ClaimLanguage, text)
    ELSE IF disclaimer.trigger = "custom" /\ disclaimer.custom_pattern # <<>>
    THEN TestPatternIgnoreCase({ToLowerCase(disclaimer.custom_pattern)}, text)
    ELSE FALSE

\* `_${text}_\n\n---\n\n` and `\n\n---\n_${text}_`
AtStart(disclaimerText) == <<"_">> \o disclaimerText \o <<"_", "\n\n---\n\n">>
AtEnd(disclaimerText) == <<"\n\n---\n", "_">> \o disclaimerText \o <<"_">>

\* InjectDisclaimer without the test for a text that is already present
InjectDisclaimerAgain(disclaimer, text) ==
    IF ShouldTrigger(disclaimer, text)
    THEN LET started == IF disclaimer.placement \in {"start", "both"}
                        THEN AtStart(disclaimer.text) \o text ELSE text
         IN  IF disclaimer.placement \in {"end", "both"}
             THEN started \o AtEnd(disclaimer.text) ELSE started
    ELSE text

\* InjectDisclaimer with placement "both" taken as "start"
InjectDisclaimerStartOnly(disclaimer, text) ==
    IF ShouldTrigger(disclaimer, text) /\ ~IncludesText(text, disclaimer.text)
    THEN LET started == IF disclaimer.placement \in {"start", "both"}
                        THEN AtStart(disclaimer.text) \o text ELSE text
         IN  IF disclaimer.placement \in {"end"}
             THEN started \o AtEnd(disclaimer.text) ELSE started
    ELSE text

\* The body of the loop over the disclaimer rules
InjectDisclaimer(disclaimer, text) ==
    IF ShouldTrigger(disclaimer, text) /\ ~IncludesText(text, disclaimer.text)
    THEN LET started == IF disclaimer.placement \in {"start", "both"}
                        THEN AtStart(disclaimer.text) \o text ELSE text
         IN  IF disclaimer.placement \in {"end", "both"}
             THEN started \o AtEnd(disclaimer.text) ELSE started
    ELSE text

\* for (const disclaimer of mandate.requirements.disclaimers)
RECURSIVE InjectDisclaimers(_, _)
InjectDisclaimers(disclaimers, text) ==
    IF disclaimers = <<>> THEN text
    ELSE InjectDisclaimers(Tail(disclaimers), InjectDisclaimer(Head(disclaimers), text))

\* `\n\n---\n⚠️ **${review_prompt}**`
ReviewNotice(prompt) == <<"\n\n---\n", "warning-sign", " ", "**">> \o prompt \o <<"**">>

\* Step 2: the review prompt, when a required_before trigger matches and the prompt is
\* not in the text yet
InjectReviewPrompt(humanReviewConfig, text) ==
    IF /\ humanReviewConfig.required_before # <<>>
       /\ \E i \in 1..Len(humanReviewConfig.required_before) :
              ReviewTriggerMatch(humanReviewConfig.required_before[i], text)
       /\ ~IncludesText(text, humanReviewConfig.review_prompt)
    THEN text \o ReviewNotice(humanReviewConfig.review_prompt)
    ELSE text

\* createDisclaimerProcessor(mandate).processOutputResult: the message list it returns
DisclaimerResult(m, msgs) ==
    LET idx == FindLastIndex(msgs, "assistant")
    IN  IF idx = 0 THEN msgs
        ELSE [ msgs EXCEPT ![idx].content =
                   InjectReviewPrompt(m.requirements.human_review,
                                      InjectDisclaimers(m.requirements.disclaimers, @)) ]


----------------------------------------------------------------------------
(* src/mandate/processors/audit.processor.ts *)

\* The content of messages.findLast(m => m.role === role); <<>> (like undefined, a value
\* the logger replaces by NULL) when there is no such message
LastContent(msgs, role) ==
    IF FindLastIndex(msgs, role) = 0 THEN <<>> ELSE msgs[FindLastIndex(msgs, role)].content

\* The entry createAuditProcessor(...).processOutputResult hands to logInteraction
AuditEntryOf(m, msgs) ==
    [ mandateName |-> m.metadata.name,
      mandateVersion |-> m.version,
      input |-> LastContent(msgs, "user"),
      output |-> LastContent(msgs, "assistant"),
      status |-> "success" ]

\* AuditLogger.logInteraction
LogInteraction(log, entry) == LoggerLog(log, entry)

----------------------------------------------------------------------------
(* The result hook of one agent: Citation, Disclaimer, Audit *)

NotLegalAdvice == <<"not legal advice">>
AiGenerated == <<"AI generated">>
ReviewPrompt == <<"Please have this reviewed">>

Disclaimer(trigger, text, placement, pattern) ==
    [trigger |-> trigger, text |-> text, placement |-> placement, custom_pattern |-> pattern]

DisclaimerRules ==
    { Disclaimer("always", NotLegalAdvice, "end", <<>>),
      Disclaimer("always", AiGenerated, "start", <<>>),
      Disclaimer("always", NotLegalAdvice, "both", <<>>),
      Disclaimer("on_document_generation", AiGenerated, "end", <<>>),
      Disclaimer("on_legal_claim", NotLegalAdvice, "start", <<>>),
      Disclaimer("custom", AiGenerated, "end", <<"Hello">>) }

MaxDisclaimers == 2

DisclaimerLists == UNION { [1..n -> DisclaimerRules] : n \in 0..MaxDisclaimers }

HumanReviewChoices ==
    { [required_before |-> <<>>, review_prompt |-> ReviewPrompt],
      [required_before |-> <<"finalize_document", "provide_deadline">>, review_prompt |-> ReviewPrompt],
      [required_before |-> <<"send_correspondence", "sign_off">>, review_prompt |-> ReviewPrompt] }

CitationChoices ==
    [ required : BOOLEAN,
      blocked_sources : { <<>>, <<Wikipedia>>, <<Blogs, LegalForums>> },
      allowed_sources : { << <<"legislation.gov.uk">> >> } ]

NoCitations ==
    [required |-> FALSE, blocked_sources |-> <<>>, allowed_sources |-> << <<"legislation.gov.uk">> >>]

PolicyNames == {"uk-law", ""}
PolicyVersions == {"2.0", ""}

\* The policy of an agent whose result stages are exercised
OutputMandate(name, version, disclaimers, citations, humanReview) ==
    [ version |-> version,
      metadata |-> [name |-> name],
      capabilities |-> [tools |-> <<>>],
      prohibitions |-> [tools |-> <<>>, data |-> <<>>],
      limits |-> DefaultLimits,
      requirements |-> [disclaimers |-> disclaimers, citations |-> citations,
                        human_review |-> humanReview] ]

\* Final responses: short and long, with and without citation evidence, naming blocked
\* sources, holding a disclaimer text already, letter-like, over 500 characters
Responses ==
    { <<>>,
      <<"hello">>,
      <<"A*199", "A">>,
      <<"A*199", "A", "A">>,
      <<"A*300", "A*199">>,
      <<"A*300", " ", "s.213">>,
      <<"A*300", " ", "act", " ", "2004">>,
      <<"wikipedia.org">>,
      <<"A*300", " ", "blogs", " ", "legal", " ", "forums">>,
      <<"A*300", " ", "Wikipedia", " ", "s.213">>,
      <<"A", " ", "not legal advice", " ", "A">>,
      <<"Dear ", "A">>,
      <<"A*300", "A*199", "A", "A", " ", "statute">>,
      <<"send", " ", "letter", " ", "Deadline">> }

ResultLists ==
    { <<Message("user", <<"hello">>), Message("assistant", text)>> : text \in Responses }
    \cup { <<Message("user", <<>>), Message("assistant", <<"hello">>)>>,
           <<Message("user", <<"hello">>)>>,
           <<Message("assistant", <<"hello">>), Message("user", <<"crime">>),
             Message("assistant", <<"A*199", "A", "A">>)>> }

MaxAuditRows == 2

OutputInit ==
    /\ \/ \E citations \in CitationChoices :
             mandate = OutputMandate("uk-law", "2.0", <<>>, citations,
                                     [required_before |-> <<>>, review_prompt |-> ReviewPrompt])
       \/ \E disclaimers \in DisclaimerLists, humanReview \in HumanReviewChoices :
             mandate = OutputMandate("uk-law", "2.0", disclaimers, NoCitations, humanReview)
       \/ \E name \in PolicyNames, version \in PolicyVersions :
             mandate = OutputMandate(name, version,
                                     <<Disclaimer("always", NotLegalAdvice, "end", <<>>)>>,
                                     NoCitations,
                                     [required_before |-> <<>>, review_prompt |-> ReviewPrompt])
    /\ StagesIdle
    /\ ToolsIdle
    /\ LimitsIdle
    /\ CoreIdle

\* The runtime has the final response of the interaction: the result hook starts
Respond(msgs) ==
    /\ stageOutcome.stage = "none"
    /\ messages' = msgs
    /\ stageOutcome' = StageResult("response", StagePassed, msgs)
    /\ UNCHANGED <<registeredExpansions, registeredScopeKeywords, registeredPatterns, processors>>
    /\ UNCHANGED toolVars
    /\ UNCHANGED limitVars
    /\ UNCHANGED coreVars

\* A result stage is handed the list the stage before it returned
HookRunning == stageOutcome.stage # "none" /\ ~stageOutcome.aborted

\* The result hook calls the Citation stage
Citation(rc) ==
    /\ HookRunning
    /\ messages' = stageOutcome.messages
    /\ retryCount' = rc
    /\ stageOutcome' = StageResult("citation", CitationResult(mandate, messages', rc), messages')
    /\ UNCHANGED <<registeredExpansions, registeredScopeKeywords, registeredPatterns, processors>>
    /\ UNCHANGED <<mandate, allTools, filtered, toolCalls, gateOutcome, auditLog, logMark>>
    /\ UNCHANGED limitVars
    /\ UNCHANGED coreVars

\* The result hook calls the Disclaimer stage
DisclaimerStage ==
    /\ HookRunning
    /\ messages' = stageOutcome.messages
    /\ stageOutcome' = StageResult("disclaimer", StagePassed, DisclaimerResult(mandate, messages'))
    /\ UNCHANGED <<registeredExpansions, registeredScopeKeywords, registeredPatterns, processors>>
    /\ UNCHANGED toolVars
    /\ UNCHANGED limitVars
    /\ UNCHANGED coreVars

\* The result hook calls the Audit stage
AuditStage ==
    /\ HookRunning
    /\ Len(auditLog) < MaxAuditRows
    /\ messages' = stageOutcome.messages
    /\ auditLog' = LogInteraction(auditLog, AuditEntryOf(mandate, messages'))
    /\ logMark' = Len(auditLog)
    /\ stageOutcome' = StageResult("audit", StagePassed, messages')
    /\ UNCHANGED <<registeredExpansions, registeredScopeKeywords, registeredPatterns, processors>>
    /\ UNCHANGED <<mandate, allTools, filtered, toolCalls, retryCount, gateOutcome>>
    /\ UNCHANGED limitVars
    /\ UNCHANGED coreVars

OutputNext ==
    \/ \E msgs \in ResultLists : Respond(msgs)
    \/ \E rc \in 0..MaxRetryCount : Citation(rc)
    \/ DisclaimerStage
    \/ AuditStage

OutputSpec == OutputInit /\ [][OutputNext]_vars


----------------------------------------------------------------------------
(* Claims about the result stages *)

CitationRan == stageOutcome.stage = "citation"
CitationsRequired == mandate.requirements.citations.required
HasAssistantMessage == FindLastIndex(messages, "assistant") # 0
FinalResponse == LastContent(messages, "assistant")
NamesBlockedSource ==
    FirstBlockedSource(mandate.requirements.citations.blocked_sources, FinalResponse) # 0
AbortedForMissingCitations == stageOutcome.aborted /\ stageOutcome.reason = LacksCitationsReason

\* C16: with citations required, a response of more than 200 characters without citation
\* evidence and without a blocked source makes Citation abort with retry = true and the
\* 'lacks citations' reason while retryCount < 2, and pass the messages unmodified once
\* retryCount >= 2; a response of at most 200 characters, or one with citation evidence,
\* is never aborted for missing citations
C16_CitationGate ==
    (CitationRan /\ CitationsRequired /\ HasAssistantMessage) =>
        /\ ( /\ CharLength(FinalResponse) > 200
             /\ ~HasCitations(FinalResponse)
             /\ ~NamesBlockedSource )
           => IF retryCount < 2
              THEN /\ stageOutcome.aborted
                   /\ stageOutcome.retry
                   /\ stageOutcome.reason = LacksCitationsReason
              ELSE /\ ~stageOutcome.aborted
                   /\ stageOutcome.messages = messages
        /\ (CharLength(FinalResponse) <= 200 \/ HasCitations(FinalResponse))
           => ~AbortedForMissingCitations

\* A response of 201 characters without evidence passed on the third attempt
C16_Witness ==
    /\ CitationRan /\ CitationsRequired /\ HasAssistantMessage
    /\ CharLength(FinalResponse) = 201
    /\ ~HasCitations(FinalResponse)
    /\ ~NamesBlockedSource
    /\ retryCount = 2
    /\ ~stageOutcome.aborted
    /\ stageOutcome.messages = messages

\* C17: with citations required, a response matching a blocked source is never let
\* through by Citation, whatever its length: abort with retry = true while
\* retryCount < 2, abort without retry once retryCount >= 2
C17_BlockedSources ==
    (CitationRan /\ CitationsRequired /\ HasAssistantMessage /\ NamesBlockedSource) =>
        /\ stageOutcome.aborted
        /\ stageOutcome.retry = (retryCount < 2)

\* A short response naming a blocked source, aborted for good on the third attempt
C17_Witness ==
    /\ CitationRan /\ CitationsRequired /\ HasAssistantMessage /\ NamesBlockedSource
    /\ CharLength(FinalResponse) <= 200
    /\ retryCount = 2
    /\ stageOutcome.aborted
    /\ ~stageOutcome.retry


DisclaimerRan == stageOutcome.stage = "disclaimer"
ReturnedResponse == LastContent(stageOutcome.messages, "assistant")
DisclaimerRulesOf == mandate.requirements.disclaimers

\* final = pre \o original \o post with the text in pre for a start placement and in
\* post for an end placement
PlacedPerPlacement(rule, original, final) ==
    \E i \in 0..(Len(final) - Len(original)) :
        /\ SubSeq(final, i + 1, i + Len(original)) = original
        /\ rule.placement \in {"start", "both"} => IncludesText(SubSeq(final, 1, i), rule.text)
        /\ rule.placement \in {"end", "both"}
           => IncludesText(SubSeq(final, i + Len(original) + 1, Len(final)), rule.text)

\* The Disclaimer stage never aborts and returns a list without assistant message as it is
DisclaimerPasses ==
    /\ ~stageOutcome.aborted
    /\ ~HasAssistantMessage => stageOutcome.messages = messages

\* C18 as stated: the Disclaimer stage never aborts, returns a list without assistant
\* message unchanged, and otherwise the final assistant message has the text of every
\* 'always' rule at the start and/or end that the rule's placement names
C18_DisclaimerInjection ==
    DisclaimerRan =>
        /\ DisclaimerPasses
        /\ HasAssistantMessage =>
              \A i \in 1..Len(DisclaimerRulesOf) :
                  DisclaimerRulesOf[i].trigger = "always" =>
                      /\ IncludesText(ReturnedResponse, DisclaimerRulesOf[i].text)
                      /\ PlacedPerPlacement(DisclaimerRulesOf[i], FinalResponse, ReturnedResponse)

\* C18 amended: the Disclaimer stage never aborts, returns a list without assistant
\* message unchanged, and otherwise the final assistant message contains the text of
\* every 'always' rule; the text is at the start and/or end named by the placement for
\* every such rule whose text is neither part of the response handed to the stage nor
\* part of the text of an earlier rule of the list
C18_DisclaimerInjectionUnlessPresent ==
    DisclaimerRan =>
        /\ DisclaimerPasses
        /\ HasAssistantMessage =>
              \A i \in 1..Len(DisclaimerRulesOf) :
                  DisclaimerRulesOf[i].trigger = "always" =>
                      /\ IncludesText(ReturnedResponse, DisclaimerRulesOf[i].text)
                      /\ ( /\ ~IncludesText(FinalResponse, DisclaimerRulesOf[i].text)
                           /\ \A j \in 1..(i - 1) :
                                  ~IncludesText(DisclaimerRulesOf[j].text, DisclaimerRulesOf[i].text) )
                         => PlacedPerPlacement(DisclaimerRulesOf[i], FinalResponse, ReturnedResponse)

\* Two 'always' rules, one of them for both ends, were injected into a response that
\* had neither text
C18_Witness ==
    /\ DisclaimerRan /\ HasAssistantMessage
    /\ Len(DisclaimerRulesOf) = 2
    /\ DisclaimerRulesOf[1].trigger = "always" /\ DisclaimerRulesOf[2].trigger = "always"
    /\ DisclaimerRulesOf[1].text # DisclaimerRulesOf[2].text
    /\ DisclaimerRulesOf[2].placement = "both"
    /\ \A i \in 1..2 : ~IncludesText(FinalResponse, DisclaimerRulesOf[i].text)
    /\ \A i \in 1..2 : PlacedPerPlacement(DisclaimerRulesOf[i], FinalResponse, ReturnedResponse)
    /\ FinalResponse # <<>>


\* The number of places of the text where the part occurs
Occurrences(part, text) ==
    Cardinality({ i \in 1..(Len(text) - Len(part) + 1) : SubSeq(text, i, i + Len(part) - 1) = part })

\* The texts the stage may insert: the rules' texts and the review prompt
InsertableTexts ==
    { DisclaimerRulesOf[i].text : i \in 1..Len(DisclaimerRulesOf) }
    \cup { mandate.requirements.human_review.review_prompt }

\* C19: when the response handed to the Disclaimer stage already contains a rule's text
\* or the review prompt, the stage inserts no further copy of it; in particular a second
\* run of the stage on its own output adds no copy of any text the first run left there
C19_NoDuplication ==
    /\ [](DisclaimerRan /\ HasAssistantMessage =>
            \A d \in InsertableTexts :
                IncludesText(FinalResponse, d)
                    => Occurrences(d, ReturnedResponse) = Occurrences(d, FinalResponse))
    /\ [][ (DisclaimerRan /\ DisclaimerStage /\ HasAssistantMessage) =>
             \A d \in InsertableTexts :
                 IncludesText(ReturnedResponse, d)
                     => Occurrences(d, ReturnedResponse') = Occurrences(d, ReturnedResponse) ]_vars

\* The stage was handed a response that carried a disclaimer and the review notice
\* already, in the form the stage gives them, with rules that ask for both
C19_Witness ==
    /\ DisclaimerRan /\ HasAssistantMessage
    /\ \E i \in 1..Len(DisclaimerRulesOf) :
          /\ DisclaimerRulesOf[i].trigger = "always"
          /\ IncludesText(FinalResponse, AtEnd(DisclaimerRulesOf[i].text))
    /\ mandate.requirements.human_review.required_before # <<>>
    /\ IncludesText(FinalResponse, ReviewNotice(mandate.requirements.human_review.review_prompt))
    /\ \A d \in InsertableTexts : Occurrences(d, ReturnedResponse) = Occurrences(d, FinalResponse)


\* The row the Audit stage appended
AppendedRow == auditLog'[Len(auditLog')]

\* C20: each run of the Audit stage appends exactly one entry, with status 'success',
\* the policy's name and version, the latest user message and the final assistant
\* message, returns the messages unchanged and does not abort
C20_AuditEntry ==
    [][ AuditStage =>
          /\ Len(auditLog') = Len(auditLog) + 1
          /\ SubSeq(auditLog', 1, Len(auditLog)) = auditLog
          /\ AppendedRow.status = "success"
          /\ AppendedRow.mandate_name = mandate.metadata.name
          /\ AppendedRow.mandate_version = mandate.version
          /\ FindLastIndex(messages', "user") # 0
             => AppendedRow.input_text = SqlText(LastContent(messages', "user"))
          /\ FindLastIndex(messages', "assistant") # 0
             => AppendedRow.output_text = SqlText(LastContent(messages', "assistant"))
          /\ stageOutcome'.messages = messages'
          /\ ~stageOutcome'.aborted ]_vars


----------------------------------------------------------------------------
(* src/mandate/parser.ts: validateMandateConsistency *)

ConsistencyError(kind, tool) == [kind |-> kind, tool |-> tool]

\* Check 3: the errors pushed for the escalation triggers
TriggerErrors(m) ==
    { ConsistencyError("topic_match_without_topics", <<>>) :
          i \in { i \in 1..Len(m.escalation.triggers) :
                    /\ m.escalation.triggers[i].condition = "topic_match"
                    /\ (~m.escalation.triggers[i].hasTopics
                        \/ Len(m.escalation.triggers[i].topics) = 0) } }
    \cup
    { ConsistencyError("confidence_below_without_threshold", <<>>) :
          i \in { i \in 1..Len(m.escalation.triggers) :
                    /\ m.escalation.triggers[i].condition = "confidence_below"
                    /\ ~m.escalation.triggers[i].hasThreshold } }

\* Check 4: the errors pushed for the disclaimer rules; an empty pattern is falsy
DisclaimerErrors(m) ==
    { ConsistencyError("custom_without_pattern", <<>>) :
          i \in { i \in 1..Len(m.requirements.disclaimers) :
                    /\ m.requirements.disclaimers[i].trigger = "custom"
                    /\ m.requirements.disclaimers[i].custom_pattern = <<>> } }

\* Checks 2, 3, 5, 6 and 7: the warnings
ConsistencyWarnings(m) ==
    { "no_skill_packs" : x \in { x \in {1} : /\ Len(m.metadata.skill_packs) = 0
                                             /\ Len(m.capabilities.tools) > 0 } }
    \cup
    { "no_resources" :
          i \in { i \in 1..Len(m.escalation.triggers) :
                    /\ m.escalation.triggers[i].action \in {"refuse_and_redirect", "provide_resources"}
                    /\ (~m.escalation.triggers[i].hasResources
                        \/ Len(m.escalation.triggers[i].resources) = 0) } }
    \cup
    { "turn_exceeds_daily_budget" :
          x \in { x \in {1} : m.limits.max_tokens_per_turn > m.limits.token_budget_daily } }
    \cup
    { "no_allowed_scopes" : x \in { x \in {1} : Len(m.scope.allowed) = 0 } }
    \cup
    { "min_per_claim_zero" :
          x \in { x \in {1} : /\ m.requirements.citations.required
                              /\ m.requirements.citations.min_per_claim = 0 } }

\* validateMandateConsistency: the result object; the policy is only read
validateMandateConsistency(m) ==
    LET errors == ToolCollisionErrors(m) \cup TriggerErrors(m) \cup DisclaimerErrors(m)
    IN  [ valid |-> errors = {},
          warnings |-> ConsistencyWarnings(m),
          errors |-> errors ]

----------------------------------------------------------------------------
(* src/skills/registry.ts *)

\* A stage object and the hooks it defines
Stage(id, hooks) == [id |-> id, hooks |-> hooks]

\* A skill pack: its id, the keys of its tools record in order, its stage factories
SkillPack(id, tools, inputProcessors, outputProcessors) ==
    [id |-> id, tools |-> tools, inputProcessors |-> inputProcessors,
     outputProcessors |-> outputProcessors]

\* SkillPackRegistry.has
RegistryHas(packs, id) == \E i \in 1..Len(packs) : packs[i].id = id

\* SkillPackRegistry.get; called for registered ids only
RegistryGet(packs, id) == packs[CHOOSE i \in 1..Len(packs) : packs[i].id = id]

NoTools == [k \in {} |-> <<>>]

\* The first key of the pack that the record holds already, 0 if none
FirstCollision(tools, pack) ==
    LET hits == { i \in 1..Len(pack.tools) : pack.tools[i] \in DOMAIN tools }
    IN  IF hits = {} THEN 0 ELSE CHOOSE i \in hits : \A j \in hits : i <= j

\* getAllTools in which a later pack's tool replaces an earlier one of the same key
RECURSIVE GetAllToolsShadowing(_, _)
GetAllToolsShadowing(packs, tools) ==
    IF packs = <<>> THEN [thrown |-> FALSE, id |-> <<>>, tools |-> tools]
    ELSE GetAllToolsShadowing(Tail(packs),
             [k \in DOMAIN tools \cup SeqToSet(Head(packs).tools) |-> k])

\* SkillPackRegistry.getAllTools: key -> tool.id for the tools of all registered packs,
\* or the error thrown for the first key two packs provide
RECURSIVE GetAllTools(_, _)
GetAllTools(packs, tools) ==
    IF packs = <<>> THEN [thrown |-> FALSE, id |-> <<>>, tools |-> tools]
    ELSE IF FirstCollision(tools, Head(packs)) # 0
    THEN [ thrown |-> TRUE, id |-> Head(packs).tools[FirstCollision(tools, Head(packs))],
           tools |-> NoTools ]
    ELSE GetAllTools(Tail(packs),
             [k \in DOMAIN tools \cup SeqToSet(Head(packs).tools) |-> k])


----------------------------------------------------------------------------
(* src/mastra/agents/factory.ts *)

\* The core stages and the hooks their objects define
LimitsStage == Stage("mandate-limits", {"input", "result"})
EscalationStage == Stage("mandate-escalation", {"input"})
ScopeStage == Stage("mandate-scope", {"input"})
ToolGateStage == Stage("mandate-tool-gate", {"step"})
DataAccessStage == Stage("mandate-data-access", {"step"})
OutputValidatorStage == Stage("mandate-output-validator", {"result"})
CitationStage == Stage("mandate-citation", {"result"})
DisclaimerStageObject == Stage("mandate-disclaimer", {"result"})
AuditStageObject == Stage("mandate-audit", {"result"})

\* Step 2: the index of the first required pack that is not registered, 0 if none
FirstMissingPack(requiredPacks, packs) ==
    LET missing == { i \in 1..Len(requiredPacks) : ~RegistryHas(packs, requiredPacks[i]) }
    IN  IF missing = {} THEN 0 ELSE CHOOSE i \in missing : \A j \in missing : i <= j

\* loadedPacks.flatMap(p => p.inputProcessors || [])
RECURSIVE SkillInputProcessors(_)
SkillInputProcessors(loadedPacks) ==
    IF loadedPacks = <<>> THEN <<>>
    ELSE Head(loadedPacks).inputProcessors \o SkillInputProcessors(Tail(loadedPacks))

\* loadedPacks.flatMap(p => p.outputProcessors || [])
RECURSIVE SkillOutputProcessors(_)
SkillOutputProcessors(loadedPacks) ==
    IF loadedPacks = <<>> THEN <<>>
    ELSE Head(loadedPacks).outputProcessors \o SkillOutputProcessors(Tail(loadedPacks))

\* The inputProcessors array of step 6
InputProcessors(loadedPacks) ==
    <<LimitsStage, EscalationStage, ScopeStage>> \o SkillInputProcessors(loadedPacks)

\* OutputProcessors with the Audit stage in front of the packs' stages
OutputProcessorsAuditEarly(loadedPacks) ==
    <<ToolGateStage, DataAccessStage, OutputValidatorStage, CitationStage, DisclaimerStageObject,
      AuditStageObject>>
    \o SkillOutputProcessors(loadedPacks)

\* The outputProcessors array of step 6
OutputProcessors(loadedPacks) ==
    <<ToolGateStage, DataAccessStage, OutputValidatorStage, CitationStage, DisclaimerStageObject>>
    \o SkillOutputProcessors(loadedPacks)
    \o <<AuditStageObject>>

\* An error thrown by createMandatedAgent: no logger, no stage and no agent were created
ConstructionError(error) ==
    [ constructed |-> FALSE, error |-> error, inputProcessors |-> <<>>, outputProcessors |-> <<>>,
      tools |-> NoTools, loggers |-> 0 ]

\* createMandatedAgent for a policy that parsed: steps 2 to 7
createMandatedAgent(m, packs) ==
    LET requiredPacks == m.metadata.skill_packs
        loadedPacks == [i \in 1..Len(requiredPacks) |-> RegistryGet(packs, requiredPacks[i])]
    IN  IF FirstMissingPack(requiredPacks, packs) # 0
        THEN ConstructionError("requires skill pack but it is not registered")
        ELSE IF GetAllTools(packs, NoTools).thrown THEN ConstructionError("Tool ID collision")
        ELSE [ constructed |-> TRUE, error |-> "",
               inputProcessors |-> InputProcessors(loadedPacks),
               outputProcessors |-> OutputProcessors(loadedPacks),
               tools |-> filterToolsByMandate(GetAllTools(packs, NoTools).tools, m),
               loggers |-> 1 ]


----------------------------------------------------------------------------
(* The host runtime that drives an assembled agent.  The runtime is an external       *)
(* collaborator; its control flow is taken from the specification, section 4 and 6:    *)
(* the stages of a hook run in the order of the agent's arrays, an abort ends the      *)
(* attempt, a retryable abort is fed back to the generator at most MaxRetries times.   *)

MaxRetries == 2
MaxSteps == 1

CorePack == SkillPack("core", <<Doc>>, <<>>, <<>>)
UkLawPack == SkillPack("uk-law", <<PayX>>, <<Stage("uk-law-jurisdiction", {"input"})>>, <<>>)
FinancePack ==
    SkillPack("finance", <<Pays>>, <<Stage("finance-intake", {"input"})>>,
              <<Stage("finance-review", {"step", "result"})>>)
LegacyPack == SkillPack("legacy", <<Doc, PayX>>, <<>>, <<Stage("legacy-footer", {"result"})>>)

SkillPacks == {CorePack, UkLawPack, FinancePack, LegacyPack}

\* A parsed policy of an agent: the fields the factory, the validator and the Audit stage read
AgentMandate(name, skillPacks, tools, prohibited) ==
    [ version |-> "2.0",
      metadata |-> [name |-> name, skill_packs |-> skillPacks],
      capabilities |-> [tools |-> tools],
      prohibitions |-> [tools |-> prohibited, data |-> <<>>],
      limits |-> DefaultLimits,
      scope |-> DefaultScope,
      escalation |-> [triggers |-> <<>>],
      requirements |-> [disclaimers |-> <<>>,
                        citations |-> [required |-> FALSE, min_per_claim |-> 1,
                                       blocked_sources |-> <<>>, allowed_sources |-> <<>>],
                        human_review |-> [required_before |-> <<>>, review_prompt |-> ReviewPrompt]] ]

AgentMandates ==
    { AgentMandate("uk-law", skillPacks, tools[1], tools[2]) :
          skillPacks \in { <<>>, <<"uk-law">>, <<"finance", "uk-law">>, <<"legacy", "finance">> },
          tools \in { <<<<Doc, PayX>>, <<>>>>, <<<<Doc, PayX>>, <<PayX>>>> } }

AgentBatches ==
    { <<[toolName |-> Doc, args |-> {}]>>, <<[toolName |-> Pays, args |-> {}]>> }

\* The stages of the agent that take part in a hook, in the order of the agent's arrays
HookChain(a, phase) ==
    LET DefinesHook(stage) == phase \in stage.hooks
    IN  IF phase = "input" THEN SelectSeq(a.inputProcessors, DefinesHook)
        ELSE SelectSeq(a.outputProcessors, DefinesHook)

\* The ids of the stages of the core and of the packs
StageIds ==
    {"mandate-limits", "mandate-escalation", "mandate-scope", "mandate-tool-gate",
     "mandate-data-access", "mandate-output-validator", "mandate-citation",
     "mandate-disclaimer", "mandate-audit"}
    \cup UNION { { pack.inputProcessors[i].id : i \in 1..Len(pack.inputProcessors) }
                 \cup { pack.outputProcessors[i].id : i \in 1..Len(pack.outputProcessors) } :
                 pack \in SkillPacks }

StageAbort(id, retry) == Abort(Text("abort", <<>>, id, 0), retry)

\* The ways the call of a stage can end, by the abort calls in the stage's code
StageDecisions(id, rc) ==
    IF id \in {"mandate-limits", "mandate-escalation", "mandate-scope", "mandate-output-validator",
               "uk-law-jurisdiction", "finance-intake"}
    THEN {Passed, StageAbort(id, FALSE)}
    ELSE IF id = "mandate-data-access" THEN {Passed, StageAbort(id, TRUE)}
    ELSE IF id = "mandate-citation" THEN {Passed, StageAbort(id, rc < 2)}
    ELSE IF id \in {"finance-review", "legacy-footer"}
    THEN {Passed, StageAbort(id, TRUE), StageAbort(id, FALSE)}
    ELSE {Passed}

\* What the call of a stage does to the audit log and how it ends: the Tool Gate and the
\* Audit stage as modelled above, any other stage by one of its decisions
StageCall(id, decision, m, msgs, calls, rc, log) ==
    IF id = "mandate-tool-gate" THEN ToolGateStep(m, calls, rc, log)
    ELSE IF id = "mandate-audit"
    THEN [log |-> LogInteraction(log, AuditEntryOf(m, msgs)), outcome |-> Passed]
    ELSE [log |-> log, outcome |-> decision]

AgentInit ==
    /\ mandate \in AgentMandates
    /\ allTools = NoTools
    /\ filtered = [resolved |-> FALSE, tools |-> NoTools]
    /\ toolCalls = <<>>
    /\ retryCount = 0
    /\ gateOutcome = Passed
    /\ auditLog = <<>>
    /\ logMark = 0
    /\ LimitsIdle
    /\ StagesIdle
    /\ CoreIdle

\* SkillPackRegistry.register; registering an id twice throws and changes nothing
Register(pack) ==
    /\ ~agent.constructed /\ agent.error = ""
    /\ ~RegistryHas(registry, pack.id)
    /\ registry' = Append(registry, pack)
    /\ UNCHANGED <<agent, hook, trace, delivered, policies, returned>>
    /\ UNCHANGED <<toolVars, limitVars, stageVars>>

\* createMandatedAgent(options) for the parsed policy and the registry as it stands
CreateAgent ==
    /\ ~agent.constructed /\ agent.error = ""
    /\ agent' = createMandatedAgent(mandate, registry)
    /\ allTools' = IF GetAllTools(registry, NoTools).thrown THEN allTools
                   ELSE GetAllTools(registry, NoTools).tools
    /\ filtered' = IF agent'.constructed THEN [resolved |-> TRUE, tools |-> agent'.tools]
                   ELSE filtered
    /\ UNCHANGED <<mandate, toolCalls, retryCount, gateOutcome, auditLog, logMark>>
    /\ UNCHANGED <<registry, hook, trace, delivered, policies, returned>>
    /\ UNCHANGED <<limitVars, stageVars>>

\* A user message enters the pipeline of the agent: one call of agent.generate, which a
\* behaviour follows to its end
Submit(text) ==
    /\ agent.constructed
    /\ hook.phase = "idle"
    /\ hook' = [phase |-> "input", index |-> 1, steps |-> 0]
    /\ trace' = <<>>
    /\ delivered' = NoOutcome
    /\ messages' = <<Message("user", text)>>
    /\ stageOutcome' = NoStageOutcome
    /\ retryCount' = 0
    /\ toolCalls' = <<>>
    /\ logMark' = Len(auditLog)
    /\ UNCHANGED <<mandate, allTools, filtered, gateOutcome, auditLog>>
    /\ UNCHANGED <<registry, agent, policies, returned>>
    /\ UNCHANGED <<registeredExpansions, registeredScopeKeywords, registeredPatterns, processors>>
    /\ UNCHANGED limitVars

\* RunStage with a runtime that goes on to the next stage after an abort
RunStageThrough(decision) ==
    /\ hook.phase \in {"input", "step", "result"}
    /\ hook.index <= Len(HookChain(agent, hook.phase))
    /\ LET stage == HookChain(agent, hook.phase)[hook.index]
           r == StageCall(stage.id, decision, mandate, messages, toolCalls, retryCount, auditLog)
       IN  /\ decision \in StageDecisions(stage.id, retryCount)
           /\ trace' = Append(trace, stage.id)
           /\ auditLog' = r.log
           /\ stageOutcome' = [ stage |-> stage.id, aborted |-> r.outcome.aborted,
                                retry |-> r.outcome.retry, reason |-> r.outcome.reason,
                                messages |-> messages ]
           /\ delivered' = delivered
           /\ hook' = [hook EXCEPT !.index = @ + 1]
    /\ UNCHANGED <<mandate, allTools, filtered, toolCalls, retryCount, gateOutcome, logMark>>
    /\ UNCHANGED <<registry, agent, policies, returned>>
    /\ UNCHANGED <<registeredExpansions, registeredScopeKeywords, registeredPatterns, processors, messages>>
    /\ UNCHANGED limitVars

\* The runtime calls the next stage of the hook in progress; an abort ends the attempt
\* and is what the caller gets
RunStage(decision) ==
    /\ hook.phase \in {"input", "step", "result"}
    /\ hook.index <= Len(HookChain(agent, hook.phase))
    /\ LET stage == HookChain(agent, hook.phase)[hook.index]
           r == StageCall(stage.id, decision, mandate, messages, toolCalls, retryCount, auditLog)
       IN  /\ decision \in StageDecisions(stage.id, retryCount)
           /\ trace' = Append(trace, stage.id)
           /\ auditLog' = r.log
           /\ stageOutcome' = [ stage |-> stage.id, aborted |-> r.outcome.aborted,
                                retry |-> r.outcome.retry, reason |-> r.outcome.reason,
                                messages |-> messages ]
           /\ delivered' = IF r.outcome.aborted
                           THEN [ ended |-> TRUE, aborted |-> TRUE, retry |-> r.outcome.retry,
                                  reason |-> r.outcome.reason, by |-> stage.id ]
                           ELSE delivered
           /\ hook' = IF r.outcome.aborted THEN [hook EXCEPT !.phase = "aborted"]
                      ELSE [hook EXCEPT !.index = @ + 1]
    /\ UNCHANGED <<mandate, allTools, filtered, toolCalls, retryCount, gateOutcome, logMark>>
    /\ UNCHANGED <<registry, agent, policies, returned>>
    /\ UNCHANGED <<registeredExpansions, registeredScopeKeywords, registeredPatterns, processors, messages>>
    /\ UNCHANGED limitVars

\* The stages of the hook all passed
HookPassed(phase) == hook.phase = phase /\ hook.index > Len(HookChain(agent, phase))

\* The generator has the turn: after the input hook, after a step, or after the feedback
\* of a retryable abort
GeneratorTurn == HookPassed("input") \/ HookPassed("step") \/ hook.phase = "retry"

\* The generator proposes a batch of tool calls: the per-step hook starts
ProposeToolCalls(calls) ==
    /\ GeneratorTurn
    /\ hook.steps < MaxSteps
    /\ toolCalls' = calls
    /\ hook' = [phase |-> "step", index |-> 1, steps |-> hook.steps + 1]
    /\ UNCHANGED <<mandate, allTools, filtered, retryCount, gateOutcome, auditLog, logMark>>
    /\ UNCHANGED <<registry, agent, trace, delivered, policies, returned>>
    /\ UNCHANGED stageVars
    /\ UNCHANGED limitVars

\* The generator produces the final response: the result hook starts
FinalResponseReady(text) ==
    /\ GeneratorTurn
    /\ messages' = Append(messages, Message("assistant", text))
    /\ hook' = [hook EXCEPT !.phase = "result", !.index = 1]
    /\ UNCHANGED toolVars
    /\ UNCHANGED <<registry, agent, trace, delivered, policies, returned>>
    /\ UNCHANGED <<registeredExpansions, registeredScopeKeywords, registeredPatterns, processors, stageOutcome>>
    /\ UNCHANGED limitVars

\* The result hook passed: the response is what the caller gets
Deliver ==
    /\ HookPassed("result")
    /\ delivered' = [ ended |-> TRUE, aborted |-> FALSE, retry |-> FALSE,
                      reason |-> Passed.reason, by |-> "none" ]
    /\ hook' = [hook EXCEPT !.phase = "done"]
    /\ UNCHANGED toolVars
    /\ UNCHANGED <<registry, agent, trace, policies, returned>>
    /\ UNCHANGED stageVars
    /\ UNCHANGED limitVars

\* A retryable abort within the retry budget: the reason goes back to the generator,
\* which starts a new attempt
RetryAttempt ==
    /\ hook.phase = "aborted"
    /\ delivered.retry
    /\ retryCount < MaxRetries
    /\ retryCount' = retryCount + 1
    /\ trace' = <<>>
    /\ delivered' = NoOutcome
    /\ messages' = SubSeq(messages, 1, 1)
    /\ hook' = [phase |-> "retry", index |-> 0, steps |-> 0]
    /\ stageOutcome' = NoStageOutcome
    /\ UNCHANGED <<mandate, allTools, filtered, toolCalls, gateOutcome, auditLog, logMark>>
    /\ UNCHANGED <<registry, agent, policies, returned>>
    /\ UNCHANGED <<registeredExpansions, registeredScopeKeywords, registeredPatterns, processors>>
    /\ UNCHANGED limitVars

AgentNext ==
    \/ \E pack \in SkillPacks : Register(pack)
    \/ CreateAgent
    \/ \E text \in {<<"hello">>} : Submit(text)
    \/ \E decision \in UNION { StageDecisions(id, rc) : id \in StageIds, rc \in 0..MaxRetries } :
           RunStage(decision)
    \/ \E calls \in AgentBatches : ProposeToolCalls(calls)
    \/ \E text \in {<<"hello">>, <<>>} : FinalResponseReady(text)
    \/ Deliver
    \/ RetryAttempt

AgentSpec == AgentInit /\ [][AgentNext]_vars


----------------------------------------------------------------------------
(* The audit log on its own: AuditLogger.log, logInteraction, query, stats *)

\* SELECT * FROM audit_log WHERE ... ORDER BY timestamp DESC LIMIT ?: an empty filter is
\* no filter, a limit of 0 is the default of 50; rows are stamped when they are inserted,
\* so newest first is the reverse of the insertion order and since is a position
LoggerQuery(log, filters) ==
    LET Selected(i) ==
            /\ filters.status # "" => log[i].status = filters.status
            /\ filters.mandateName # "" => log[i].mandate_name = filters.mandateName
            /\ i > filters.since
        hits == { i \in 1..Len(log) : Selected(i) }
        limit == IF filters.limit # 0 THEN filters.limit ELSE DefaultQueryLimit
        RECURSIVE NewestFirst(_, _)
        NewestFirst(i, n) ==
            IF i = 0 \/ n = 0 THEN <<>>
            ELSE IF i \in hits THEN <<log[i]>> \o NewestFirst(i - 1, n - 1)
            ELSE NewestFirst(i - 1, n)
    IN  NewestFirst(Len(log), limit)

\* AuditLogger.stats: SELECT status, COUNT(*) ... GROUP BY status
LoggerStats(log, mandateName) ==
    LET Counted(status) ==
            Cardinality({ i \in 1..Len(log) :
                            /\ mandateName # "" => log[i].mandate_name = mandateName
                            /\ status # "" => log[i].status = status })
    IN  [ total |-> Counted(""), blocked |-> Counted("blocked"),
          escalated |-> Counted("escalated"), errors |-> Counted("error") ]

\* Entries handed to the logger: Tool Gate check rows and interaction summaries
AuditEntries ==
    { [check |-> "tool_prohibition", result |-> "blocked", detail |-> NullDetail] }
    \cup { [ mandateName |-> name, mandateVersion |-> "2.0", status |-> status,
             input |-> <<"hello">>, output |-> <<"hi">> ] :
             name \in {"uk-law", "finance", ""},
             status \in {"success", "blocked", "escalated", "error"} }

AuditFilters ==
    [ status : {"", "blocked", "success"}, mandateName : {"", "uk-law"},
      since : {0, 1}, limit : {0, 1} ]

AuditInit ==
    /\ mandate = AgentMandate("uk-law", <<>>, <<Doc, PayX>>, <<>>)
    /\ allTools = NoTools
    /\ filtered = [resolved |-> FALSE, tools |-> NoTools]
    /\ toolCalls = <<>>
    /\ retryCount = 0
    /\ gateOutcome = Passed
    /\ auditLog = <<>>
    /\ logMark = 0
    /\ LimitsIdle
    /\ StagesIdle
    /\ CoreIdle

\* AuditLogger.log(entry)
Log(entry) ==
    /\ Len(auditLog) < MaxAuditRows
    /\ auditLog' = LoggerLog(auditLog, entry)
    /\ returned' = [kind |-> "log"]
    /\ UNCHANGED <<mandate, allTools, filtered, toolCalls, retryCount, gateOutcome, logMark>>
    /\ UNCHANGED <<registry, agent, hook, trace, delivered, policies>>
    /\ UNCHANGED <<limitVars, stageVars>>

\* AuditLogger.logInteraction(entry)
LogInteractionCall(entry) ==
    /\ Len(auditLog) < MaxAuditRows
    /\ "status" \in DOMAIN entry
    /\ auditLog' = LogInteraction(auditLog, entry)
    /\ returned' = [kind |-> "logInteraction"]
    /\ UNCHANGED <<mandate, allTools, filtered, toolCalls, retryCount, gateOutcome, logMark>>
    /\ UNCHANGED <<registry, agent, hook, trace, delivered, policies>>
    /\ UNCHANGED <<limitVars, stageVars>>

\* AuditLogger.query(filters)
Query(filters) ==
    /\ returned' = [kind |-> "query", rows |-> LoggerQuery(auditLog, filters)]
    /\ UNCHANGED toolVars
    /\ UNCHANGED <<registry, agent, hook, trace, delivered, policies>>
    /\ UNCHANGED <<limitVars, stageVars>>

\* AuditLogger.stats(mandateName)
Stats(mandateName) ==
    /\ returned' = [kind |-> "stats", stats |-> LoggerStats(auditLog, mandateName)]
    /\ UNCHANGED toolVars
    /\ UNCHANGED <<registry, agent, hook, trace, delivered, policies>>
    /\ UNCHANGED <<limitVars, stageVars>>

AuditNext ==
    \/ \E entry \in AuditEntries : Log(entry)
    \/ \E entry \in AuditEntries : LogInteractionCall(entry)
    \/ \E filters \in AuditFilters : Query(filters)
    \/ \E mandateName \in {"", "uk-law", "finance"} : Stats(mandateName)

AuditSpec == AuditInit /\ [][AuditNext]_vars

\* C22: the audit log is append-only: log and logInteraction each add exactly one entry
\* at the end, and no call of log, logInteraction, query or stats changes or removes an
\* entry that is already there
C22_AppendOnly ==
    [][ /\ Len(auditLog') >= Len(auditLog)
        /\ SubSeq(auditLog', 1, Len(auditLog)) = auditLog
        /\ (\E entry \in AuditEntries : Log(entry) \/ LogInteractionCall(entry))
               => Len(auditLog') = Len(auditLog) + 1
        /\ ((\E filters \in AuditFilters : Query(filters))
               \/ (\E mandateName \in {"", "uk-law", "finance"} : Stats(mandateName)))
               => auditLog' = auditLog ]_vars

\* A query answered from a log of two entries, the older of another policy
C22_Witness ==
    /\ Len(auditLog) >= 2
    /\ auditLog[1].mandate_name = "finance"
    /\ auditLog[2].mandate_name = "uk-law"
    /\ returned.kind = "query"
    /\ returned.rows = <<auditLog[2]>>

----------------------------------------------------------------------------
(* Claims about the assembled agent and its pipeline (AgentSpec) *)

\* The interaction has come to its end: delivered, or aborted with no retry to come
InteractionOver ==
    \/ hook.phase = "done"
    \/ hook.phase = "aborted" /\ ~(delivered.retry /\ retryCount < MaxRetries)

\* The rows written since the interaction entered the pipeline
InteractionRows == SubSeq(auditLog, logMark + 1, Len(auditLog))

\* C21: every interaction that enters the pipeline, one ended by the abort of an input,
\* per-step or result stage included, has at least one audit entry when it is over
C21_EveryInteractionAudited ==
    InteractionOver => Len(InteractionRows) >= 1

\* The ids of the stages that the required packs contribute to a hook, in the order of
\* the policy's skill_packs list
RECURSIVE ExtensionStages(_, _, _)
ExtensionStages(packIds, side, phase) ==
    IF packIds = <<>> THEN <<>>
    ELSE LET pack == RegistryGet(registry, Head(packIds))
             stages == IF side = "input" THEN pack.inputProcessors ELSE pack.outputProcessors
             Defines(stage) == phase \in stage.hooks
             defining == SelectSeq(stages, Defines)
         IN  [i \in 1..Len(defining) |-> defining[i].id]
             \o ExtensionStages(Tail(packIds), side, phase)

\* The order of the stages of a hook that the specification fixes
FixedOrder(phase) ==
    IF phase = "input"
    THEN <<"mandate-limits", "mandate-escalation", "mandate-scope">>
         \o ExtensionStages(mandate.metadata.skill_packs, "input", "input")
    ELSE IF phase = "step"
    THEN <<"mandate-tool-gate", "mandate-data-access">>
         \o ExtensionStages(mandate.metadata.skill_packs, "output", "step")
    ELSE <<"mandate-output-validator", "mandate-citation", "mandate-disclaimer">>
         \o ExtensionStages(mandate.metadata.skill_packs, "output", "result")
         \o <<"mandate-audit">>

\* The stages that ran so far in the hook in progress
HookRun == SubSeq(trace, Len(trace) - (hook.index - 1) + 1, Len(trace))

\* C23: in an assembled agent the stages of each hook run in the fixed order: Limits,
\* Escalation, Scope, extension stages on input; Tool Gate, Data Access (then extension
\* stages with a per-step hook) per step; Output Validator, Citation, Disclaimer,
\* extension stages, Audit on result; Audit is the last stage of every interaction that
\* is delivered
C23_FixedOrder ==
    agent.constructed =>
        /\ hook.phase \in {"input", "step", "result"} =>
              /\ hook.index - 1 <= Len(FixedOrder(hook.phase))
              /\ HookRun = SubSeq(FixedOrder(hook.phase), 1, hook.index - 1)
        /\ hook.phase = "done" =>
              /\ trace[Len(trace)] = "mandate-audit"
              /\ Len(trace) >= Len(FixedOrder("result"))
              /\ SubSeq(trace, Len(trace) - Len(FixedOrder("result")) + 1, Len(trace))
                     = FixedOrder("result")

\* An interaction of an agent with two extension packs was delivered after a tool step
C23_Witness ==
    /\ agent.constructed
    /\ Len(mandate.metadata.skill_packs) = 2
    /\ hook.phase = "done"
    /\ hook.steps = 1
    /\ Len(trace) = Len(FixedOrder("input")) + Len(FixedOrder("step")) + Len(FixedOrder("result"))
    /\ Len(FixedOrder("result")) > 4

\* C24: once a stage has invoked abort, no later stage runs in that attempt, and the
\* reason and the retry flag of that abort are what the caller gets
C24_AbortShortCircuits ==
    /\ [](stageOutcome.aborted =>
            /\ hook.phase = "aborted"
            /\ delivered.aborted
            /\ delivered.by = stageOutcome.stage
            /\ delivered.reason = stageOutcome.reason
            /\ delivered.retry = stageOutcome.retry
            /\ trace[Len(trace)] = stageOutcome.stage)
    /\ [][hook.phase = "aborted" => (trace' = trace \/ trace' = <<>>)]_vars

\* The Scope stage aborted: the extension input stages of the agent did not run
C24_Witness ==
    /\ stageOutcome.aborted
    /\ stageOutcome.stage = "mandate-scope"
    /\ Len(FixedOrder("input")) > 3
    /\ trace = <<"mandate-limits", "mandate-escalation", "mandate-scope">>
    /\ delivered.aborted /\ ~delivered.retry


\* C29: no agent is constructed from a policy for which the consistency validator
\* reports an error: construction fails for such a policy
C29_NoAgentFromInconsistentPolicy ==
    agent.constructed => validateMandateConsistency(mandate).valid

\* A pack the policy requires is not registered
RequiredPackMissing ==
    \E i \in 1..Len(mandate.metadata.skill_packs) :
        \A j \in 1..Len(registry) : registry[j].id # mandate.metadata.skill_packs[i]

\* The registered packs that provide a tool of this identifier
ProvidersOf(tool) == { j \in 1..Len(registry) : tool \in SeqToSet(registry[j].tools) }

\* Two registered packs provide a tool of the same identifier
ToolIdCollision ==
    \E j, k \in 1..Len(registry) :
        j # k /\ SeqToSet(registry[j].tools) \cap SeqToSet(registry[k].tools) # {}

ConstructionAttempted == agent # NoAgent

\* C30: when a required pack is not registered, or two registered packs provide a tool of
\* the same identifier, createMandatedAgent fails and leaves no agent, no stage and no
\* logger behind; an agent that was constructed has each of its tools from exactly one
\* pack, and only a constructed agent takes interactions
C30_ConfigurationErrorsAtConstruction ==
    /\ ConstructionAttempted /\ (RequiredPackMissing \/ ToolIdCollision) =>
          /\ ~agent.constructed
          /\ agent.error # ""
          /\ agent.inputProcessors = <<>>
          /\ agent.outputProcessors = <<>>
          /\ agent.loggers = 0
          /\ hook.phase = "idle"
    /\ agent.constructed =>
          /\ \A tool \in DOMAIN allTools : Cardinality(ProvidersOf(tool)) = 1
          /\ \A tool \in DOMAIN agent.tools : Cardinality(ProvidersOf(tool)) = 1
    /\ hook.phase # "idle" => agent.constructed

\* Construction failed on a collision although every required pack is registered
C30_Witness ==
    /\ ConstructionAttempted
    /\ ~agent.constructed
    /\ ToolIdCollision
    /\ ~RequiredPackMissing
    /\ Len(mandate.metadata.skill_packs) = 2
    /\ agent.error = "Tool ID collision"

----------------------------------------------------------------------------
(* src/mandate/composer.ts: composeMandates *)

RECURSIVE Flatten(_)
Flatten(lists) == IF lists = <<>> THEN <<>> ELSE Head(lists) \o Flatten(Tail(lists))

\* [...new Set(list)]: the first occurrence of each value, in order
RECURSIVE Distinct(_)
Distinct(list) ==
    IF list = <<>> THEN <<>>
    ELSE LET rest == Distinct(SubSeq(list, 1, Len(list) - 1))
             last == list[Len(list)]
         IN  IF last \in SeqToSet(rest) THEN rest ELSE Append(rest, last)

\* Intersected testing the second list only
IntersectedWithSecond(lists) ==
    LET InSecond(x) == x \in SeqToSet(lists[2])
    IN  SelectSeq(Distinct(lists[1]), InSecond)

\* [...sets[0]].filter(x => sets.every(set => set.has(x)))
Intersected(lists) ==
    LET InEvery(x) == \A i \in 1..Len(lists) : x \in SeqToSet(lists[i])
    IN  SelectSeq(Distinct(lists[1]), InEvery)

\* Math.min(...values), Math.max(...values) of a non-empty list of integers
MathMin(values) == CHOOSE x \in SeqToSet(values) : \A y \in SeqToSet(values) : x <= y
MathMax(values) == CHOOSE x \in SeqToSet(values) : \A y \in SeqToSet(values) : x >= y

\* flatMap(m => m.requirements.disclaimers).filter(first rule of each text)
RECURSIVE DistinctByText(_)
DistinctByText(rules) ==
    IF rules = <<>> THEN <<>>
    ELSE LET rest == DistinctByText(SubSeq(rules, 1, Len(rules) - 1))
             last == rules[Len(rules)]
         IN  IF \E i \in 1..Len(rest) : rest[i].text = last.text THEN rest
             ELSE Append(rest, last)

\* composedLimits with the limits of the first policy only
ComposedLimitsOfBase(mandates) == mandates[1].limits

\* composedLimits
ComposedLimits(mandates) ==
    LET Of(field) == [i \in 1..Len(mandates) |-> mandates[i].limits[field]]
    IN  [ max_tokens_per_turn |-> MathMin(Of("max_tokens_per_turn")),
          max_tool_calls_per_turn |-> MathMin(Of("max_tool_calls_per_turn")),
          max_turns_per_session |-> MathMin(Of("max_turns_per_session")),
          max_concurrent_sessions |-> MathMin(Of("max_concurrent_sessions")),
          token_budget_daily |-> MathMin(Of("token_budget_daily")),
          timeout_seconds |-> MathMin(Of("timeout_seconds")) ]

\* The object the composition of two or more policies builds
Composed(mandates) ==
    LET base == mandates[1]
        n == Len(mandates)
        names == [i \in 1..n |-> mandates[i].metadata.name]
    IN  [ version |-> base.version,
          metadata |-> [ name |-> <<"composed-">> \o Join(names, <<"-">>),
                         description |-> <<"Composed mandate from: ">> \o Join(names, <<", ">>),
                         author |-> "system",
                         tags |-> Distinct(Flatten([i \in 1..n |-> mandates[i].metadata.tags])),
                         skill_packs |->
                             Distinct(Flatten([i \in 1..n |-> mandates[i].metadata.skill_packs])) ],
          capabilities |->
              [ tools |-> Intersected([i \in 1..n |-> mandates[i].capabilities.tools]),
                data_access |-> base.capabilities.data_access,
                output_types |->
                    Distinct(Flatten([i \in 1..n |-> mandates[i].capabilities.output_types])) ],
          prohibitions |->
              [ tools |-> Distinct(Flatten([i \in 1..n |-> mandates[i].prohibitions.tools])),
                actions |-> Distinct(Flatten([i \in 1..n |-> mandates[i].prohibitions.actions])),
                data |-> Distinct(Flatten([i \in 1..n |-> mandates[i].prohibitions.data])) ],
          requirements |->
              [ disclaimers |->
                    DistinctByText(Flatten([i \in 1..n |-> mandates[i].requirements.disclaimers])),
                citations |-> base.requirements.citations,
                human_review |-> base.requirements.human_review,
                audit |-> [ log_level |-> "full", include_llm_calls |-> TRUE,
                            include_tool_calls |-> TRUE,
                            retention_days |->
                                MathMax([i \in 1..n |->
                                            mandates[i].requirements.audit.retention_days]) ] ],
          scope |-> [ allowed |-> Intersected([i \in 1..n |-> mandates[i].scope.allowed]),
                      behavior_on_unsupported |-> "escalate",
                      escalation_message |-> base.scope.escalation_message ],
          escalation |-> [triggers |-> Flatten([i \in 1..n |-> mandates[i].escalation.triggers])],
          limits |-> ComposedLimits(mandates) ]

\* What a call of composeMandates gives: an error, or a policy object; instance is the
\* position in the argument of the object returned, 0 for an object built by the call
ComposeError == [kind |-> "error", message |-> "Cannot compose zero mandates"]
ComposeResult(instance, policy) == [kind |-> "policy", instance |-> instance, policy |-> policy]

\* composeMandates without the special case of one policy
ComposeMandatesAlwaysBuilding(mandates) ==
    IF Len(mandates) = 0 THEN ComposeError
    ELSE ComposeResult(0, Composed(mandates))

composeMandates(mandates) ==
    IF Len(mandates) = 0 THEN ComposeError
    ELSE IF Len(mandates) = 1 THEN ComposeResult(1, mandates[1])
    ELSE ComposeResult(0, Composed(mandates))


MaxPolicies == 3

Limits6(tokens, calls, turns, sessions, budget, timeout) ==
    [ max_tokens_per_turn |-> tokens, max_tool_calls_per_turn |-> calls,
      max_turns_per_session |-> turns, max_concurrent_sessions |-> sessions,
      token_budget_daily |-> budget, timeout_seconds |-> timeout ]

\* capabilities.data_access of the policies composed: one rule each, read-only over
\* documents but for the archive, which may write text files
ComposeDataAccess(name) ==
    IF name = "archive"
    THEN <<[scope |-> name, permissions |-> <<"read", "write">>, file_types |-> <<<<".", "t", "x", "t">>>>]>>
    ELSE IF name = "finance"
    THEN <<[scope |-> name, permissions |-> <<"read">>, file_types |-> <<<<".", "p", "d", "f">>, <<".", "c", "s", "v">>>>]>>
    ELSE <<[scope |-> name, permissions |-> <<"read">>, file_types |-> <<<<".", "p", "d", "f">>>>]>>

\* A parsed policy with every field composeMandates reads
ComposePolicy(name, tools, prohibitions, scopes, limits, disclaimers, required, retention) ==
    [ version |-> "2.0",
      metadata |-> [name |-> <<name>>, tags |-> <<name>>, skill_packs |-> <<name>>],
      capabilities |-> [ tools |-> tools,
                         data_access |-> ComposeDataAccess(name),
                         output_types |-> <<"text">> ],
      prohibitions |-> prohibitions,
      requirements |->
          [ disclaimers |-> disclaimers,
            citations |-> [ required |-> required, min_per_claim |-> 1,
                            blocked_sources |-> <<>>, allowed_sources |-> <<>> ],
            human_review |-> [required_before |-> <<>>, review_prompt |-> ReviewPrompt],
            audit |-> [ log_level |-> "errors_only", include_llm_calls |-> FALSE,
                        include_tool_calls |-> FALSE, retention_days |-> retention ] ],
      scope |-> [ allowed |-> scopes, behavior_on_unsupported |-> "refuse",
                  escalation_message |-> <<name>> ],
      escalation |-> [triggers |-> <<>>],
      limits |-> limits ]

ComposePolicies ==
    { ComposePolicy("uk-law", <<Doc, PayX, Pays>>,
                    [tools |-> <<>>, actions |-> <<"advise">>, data |-> <<"pii">>],
                    <<"uk", "eu">>, Limits6(2, 1, 3, 1, 2, 1),
                    <<Disclaimer("always", NotLegalAdvice, "end", <<>>)>>, FALSE, 30),
      ComposePolicy("finance", <<PayX, Doc, PayX>>,
                    [tools |-> <<Pays>>, actions |-> <<"advise", "sign">>, data |-> <<>>],
                    <<"uk">>, Limits6(1, 2, 1, 2, 1, 2),
                    <<Disclaimer("always", NotLegalAdvice, "both", <<>>),
                      Disclaimer("always", AiGenerated, "start", <<>>)>>, TRUE, 90),
      ComposePolicy("tax", <<Doc, Pays>>,
                    [tools |-> <<Pays, PayStar>>, actions |-> <<>>, data |-> <<"pii", "health">>],
                    <<"eu", "uk">>, Limits6(3, 3, 2, 3, 3, 3),
                    <<Disclaimer("on_legal_claim", AiGenerated, "start", <<>>),
                      Disclaimer("always", AiGenerated, "end", <<>>)>>, FALSE, 7),
      ComposePolicy("intake", <<Pays>>,
                    [tools |-> <<Star>>, actions |-> <<"sign">>, data |-> <<>>],
                    <<"us">>, Limits6(1, 1, 1, 1, 1, 1), <<>>, TRUE, 30),
      ComposePolicy("archive", <<>>,
                    [tools |-> <<>>, actions |-> <<>>, data |-> <<>>],
                    <<>>, Limits6(3, 1, 3, 1, 3, 1),
                    <<Disclaimer("custom", ReviewPrompt, "end", <<"Hello">>)>>, FALSE, 365) }

PolicyLists == UNION { [1..n -> ComposePolicies] : n \in 0..MaxPolicies }

ComposeInit ==
    /\ mandate = AgentMandate("uk-law", <<>>, <<Doc, PayX>>, <<>>)
    /\ allTools = NoTools
    /\ filtered = [resolved |-> FALSE, tools |-> NoTools]
    /\ toolCalls = <<>>
    /\ retryCount = 0
    /\ gateOutcome = Passed
    /\ auditLog = <<>>
    /\ logMark = 0
    /\ LimitsIdle
    /\ StagesIdle
    /\ registry = <<>>
    /\ agent = NoAgent
    /\ hook = [phase |-> "idle", index |-> 0, steps |-> 0]
    /\ trace = <<>>
    /\ delivered = NoOutcome
    /\ policies \in PolicyLists
    /\ returned = NoReturn

\* composeMandates(policies) is called
Compose ==
    /\ returned = NoReturn
    /\ returned' = composeMandates(policies)
    /\ UNCHANGED toolVars
    /\ UNCHANGED <<registry, agent, hook, trace, delivered, policies>>
    /\ UNCHANGED <<limitVars, stageVars>>

ComposeNext == Compose

ComposeSpec == ComposeInit /\ [][ComposeNext]_vars

----------------------------------------------------------------------------
(* Claims about composition (ComposeSpec) *)

LimitFields ==
    { "max_tokens_per_turn", "max_tool_calls_per_turn", "max_turns_per_session",
      "max_concurrent_sessions", "token_budget_daily", "timeout_seconds" }

ComposedOfSeveral == returned.kind = "policy" /\ Len(policies) > 1

\* C25: composing no policy is an error; composing one policy gives back that same
\* policy object, unchanged
C25_ZeroAndOne ==
    returned # NoReturn =>
        /\ Len(policies) = 0 => returned.kind = "error"
        /\ Len(policies) = 1 =>
              /\ returned.kind = "policy"
              /\ returned.instance = 1
              /\ returned.policy = policies[1]
        /\ Len(policies) > 0 => returned.kind = "policy"

C25_Witness ==
    /\ Len(policies) = 1
    /\ returned.kind = "policy"
    /\ returned.policy.metadata.name = <<"finance">>

\* C26: composing two or more policies gives, in each of the six numeric limit fields,
\* the minimum of that field over the inputs: it is never greater than any input's
\* value, it is the value of one of them, and it is the same for every order of the inputs
C26_LimitsAreMinima ==
    ComposedOfSeveral =>
        /\ \A field \in LimitFields :
              /\ \A i \in 1..Len(policies) :
                     returned.policy.limits[field] <= policies[i].limits[field]
              /\ \E i \in 1..Len(policies) :
                     returned.policy.limits[field] = policies[i].limits[field]
        /\ \A order \in Permutations(1..Len(policies)) :
               composeMandates([i \in 1..Len(policies) |-> policies[order[i]]]).policy.limits
                   = returned.policy.limits

\* Three policies composed, the limits of the result being those of none of them
C26_Witness ==
    /\ ComposedOfSeveral
    /\ Len(policies) = 3
    /\ \A i \in 1..3 : returned.policy.limits # policies[i].limits
    /\ returned.policy.limits.max_turns_per_session < policies[1].limits.max_turns_per_session

TextsOf(rules) == { rules[i].text : i \in 1..Len(rules) }

\* C27: composing two or more policies gives a tool whitelist and a list of allowed
\* scopes that are the intersections of the inputs', prohibited tools, actions and data
\* that are the unions of the inputs', and disclaimers that hold the text of every
\* disclaimer of every input exactly once
C27_SetRules ==
    ComposedOfSeveral =>
        LET n == Len(policies)
            result == returned.policy
        IN  /\ SeqToSet(result.capabilities.tools)
                   = { t \in SeqToSet(policies[1].capabilities.tools) :
                           \A i \in 1..n : t \in SeqToSet(policies[i].capabilities.tools) }
            /\ SeqToSet(result.scope.allowed)
                   = { t \in SeqToSet(policies[1].scope.allowed) :
                           \A i \in 1..n : t \in SeqToSet(policies[i].scope.allowed) }
            /\ SeqToSet(result.prohibitions.tools)
                   = UNION { SeqToSet(policies[i].prohibitions.tools) : i \in 1..n }
            /\ SeqToSet(result.prohibitions.actions)
                   = UNION { SeqToSet(policies[i].prohibitions.actions) : i \in 1..n }
            /\ SeqToSet(result.prohibitions.data)
                   = UNION { SeqToSet(policies[i].prohibitions.data) : i \in 1..n }
            /\ TextsOf(result.requirements.disclaimers)
                   = UNION { TextsOf(policies[i].requirements.disclaimers) : i \in 1..n }
            /\ \A text \in TextsOf(result.requirements.disclaimers) :
                   Cardinality({ j \in 1..Len(result.requirements.disclaimers) :
                                     result.requirements.disclaimers[j].text = text }) = 1

\* Three policies composed: one tool is on all three whitelists, a prohibition and a
\* disclaimer text are shared by two of them
C27_Witness ==
    /\ ComposedOfSeveral
    /\ Len(policies) = 3
    /\ returned.policy.capabilities.tools = <<Doc>>
    /\ returned.policy.scope.allowed = <<"uk">>
    /\ Len(returned.policy.prohibitions.tools) = 2
    /\ Len(policies[2].prohibitions.tools) + Len(policies[3].prohibitions.tools) = 3
    /\ Len(returned.policy.requirements.disclaimers) = 2
    /\ Len(Flatten([i \in 1..3 |-> policies[i].requirements.disclaimers])) = 5


----------------------------------------------------------------------------
(* validateMandateConsistency on its own (ValidateSpec) *)

ValidatorTrigger(condition, hasTopics, topics, hasThreshold, action, hasResources) ==
    [ condition |-> condition, hasTopics |-> hasTopics, topics |-> topics,
      hasThreshold |-> hasThreshold, action |-> action, hasResources |-> hasResources,
      resources |-> <<>>, message |-> <<"M1">> ]

ValidatorTriggerLists ==
    { <<>>,
      <<ValidatorTrigger("topic_match", TRUE, <<"crime">>, FALSE, "refuse", FALSE)>>,
      <<ValidatorTrigger("topic_match", FALSE, <<>>, FALSE, "warn_user", FALSE)>>,
      <<ValidatorTrigger("topic_match", TRUE, <<>>, FALSE, "refuse", FALSE)>>,
      <<ValidatorTrigger("confidence_below", FALSE, <<>>, TRUE, "warn_user", FALSE)>>,
      <<ValidatorTrigger("confidence_below", FALSE, <<>>, FALSE, "disclose_and_defer", FALSE)>>,
      <<ValidatorTrigger("user_distress_detected", FALSE, <<>>, FALSE, "provide_resources", FALSE)>>,
      <<ValidatorTrigger("user_distress_detected", FALSE, <<>>, FALSE, "refuse_and_redirect", TRUE)>> }

ValidatorDisclaimerLists ==
    { <<>>,
      <<Disclaimer("custom", AiGenerated, "end", <<>>)>>,
      <<Disclaimer("always", NotLegalAdvice, "end", <<>>),
        Disclaimer("custom", AiGenerated, "end", <<"Hello">>)>> }

\* Parsed policies handed to the validator
ValidatorMandates ==
    { [ AgentMandate("uk-law", skillPacks, tools, prohibited) EXCEPT
            !.escalation.triggers = triggers,
            !.requirements.disclaimers = disclaimers,
            !.requirements.citations.min_per_claim = minPerClaim,
            !.requirements.citations.required = TRUE,
            !.limits.token_budget_daily = budget,
            !.scope.allowed = IF budget = 1 THEN <<>> ELSE <<"uk">> ] :
          skillPacks \in { <<>>, <<"uk-law">> },
          tools \in { <<Doc, PayX>>, <<Pays>>, <<>> },
          prohibited \in ProhibitionLists,
          triggers \in ValidatorTriggerLists,
          disclaimers \in ValidatorDisclaimerLists,
          minPerClaim \in {0, 1},
          budget \in {1, 3} }

ValidateInit ==
    /\ mandate \in ValidatorMandates
    /\ allTools = NoTools
    /\ filtered = [resolved |-> FALSE, tools |-> NoTools]
    /\ toolCalls = <<>>
    /\ retryCount = 0
    /\ gateOutcome = Passed
    /\ auditLog = <<>>
    /\ logMark = 0
    /\ LimitsIdle
    /\ StagesIdle
    /\ CoreIdle

\* validateMandateConsistency(mandate) is called; policy is the document after the call
Validate ==
    /\ returned = NoReturn
    /\ returned' = [ kind |-> "validation", result |-> validateMandateConsistency(mandate),
                     policy |-> mandate ]
    /\ UNCHANGED toolVars
    /\ UNCHANGED <<registry, agent, hook, trace, delivered, policies>>
    /\ UNCHANGED <<limitVars, stageVars>>

ValidateNext == Validate

ValidateSpec == ValidateInit /\ [][ValidateNext]_vars

\* A whitelisted tool that is an exact prohibition or matched by a wildcard prohibition
CollidingTools ==
    { tool \in SeqToSet(mandate.capabilities.tools) :
          ExactlyProhibited(tool) \/ MatchedByWildcard(tool) }

\* A topic_match trigger without topics, a confidence_below trigger without threshold,
\* or a custom disclaimer without pattern
StructureErrors ==
    \/ \E i \in 1..Len(mandate.escalation.triggers) :
          LET trigger == mandate.escalation.triggers[i]
          IN  \/ trigger.condition = "topic_match" /\ (~trigger.hasTopics \/ trigger.topics = <<>>)
              \/ trigger.condition = "confidence_below" /\ ~trigger.hasThreshold
    \/ \E i \in 1..Len(mandate.requirements.disclaimers) :
          LET rule == mandate.requirements.disclaimers[i]
          IN  rule.trigger = "custom" /\ rule.custom_pattern = <<>>

\* C28: the validator reports a policy invalid if and only if a whitelisted tool is an
\* exact prohibition or is matched by a wildcard prohibition, a topic_match trigger has
\* no topics, a confidence_below trigger has no threshold, or a custom disclaimer has no
\* pattern; a collision is reported with an error naming the tool; warnings alone leave
\* the policy valid; the policy is not modified
C28_ValidatorIff ==
    returned.kind = "validation" =>
        /\ ~returned.result.valid <=> (CollidingTools # {} \/ StructureErrors)
        /\ \A tool \in CollidingTools : \E error \in returned.result.errors : error.tool = tool
        /\ returned.result.errors = {} => returned.result.valid
        /\ returned.policy = mandate


----------------------------------------------------------------------------
(* src/mandate/processors/disclaimer.processor.ts: the Data Access stage.  Strings   *)
(* are sequences of characters here, so that lastIndexOf, substring, the word          *)
(* boundaries of the write patterns and JSON.stringify are computed on characters.     *)

UpperLetters ==
    <<"A", "B", "C", "D", "E", "F", "G", "H", "I", "J", "K", "L", "M",
      "N", "O", "P", "Q", "R", "S", "T", "U", "V", "W", "X", "Y", "Z">>
LowerLetters ==
    <<"a", "b", "c", "d", "e", "f", "g", "h", "i", "j", "k", "l", "m",
      "n", "o", "p", "q", "r", "s", "t", "u", "v", "w", "x", "y", "z">>
DigitChars == {"0", "1", "2", "3", "4", "5", "6", "7", "8", "9"}

\* String.prototype.toLowerCase, character by character
LowerChar(c) ==
    IF c \in SeqToSet(UpperLetters)
    THEN LowerLetters[CHOOSE i \in 1..Len(UpperLetters) : UpperLetters[i] = c]
    ELSE c
LowerString(str) == [i \in 1..Len(str) |-> LowerChar(str[i])]

\* \w of a regular expression
IsWordChar(c) ==
    c \in SeqToSet(UpperLetters) \cup SeqToSet(LowerLetters) \cup DigitChars \cup {"_"}

\* String.prototype.lastIndexOf for a character, 1-based; 0 when it does not occur
LastIndexOf(str, ch) ==
    LET hits == { i \in 1..Len(str) : str[i] = ch }
    IN  IF hits = {} THEN 0 ELSE CHOOSE i \in hits : \A j \in hits : j <= i

\* /\bword\b/.test(str)
TestWord(word, str) ==
    \E i \in 1..(Len(str) - Len(word) + 1) :
        /\ SubSeq(str, i, i + Len(word) - 1) = word
        /\ i = 1 \/ ~IsWordChar(str[i - 1])
        /\ i + Len(word) > Len(str) \/ ~IsWordChar(str[i + Len(word)])

\* Values of tool-call arguments, as JSON gives them
JsonString(str) == [kind |-> "string", value |-> str]
JsonNumber(digits) == [kind |-> "number", value |-> digits]
JsonArray(items) == [kind |-> "array", items |-> items]
JsonObject(keys, values) == [kind |-> "object", keys |-> keys, values |-> values]
JsonAbsent == [kind |-> "undefined"]

\* extractStrings(obj)
RECURSIVE extractStrings(_)
extractStrings(obj) ==
    IF obj.kind = "string" THEN <<obj.value>>
    ELSE IF obj.kind = "array"
    THEN Flatten([i \in 1..Len(obj.items) |-> extractStrings(obj.items[i])])
    ELSE IF obj.kind = "object"
    THEN Flatten([i \in 1..Len(obj.values) |-> extractStrings(obj.values[i])])
    ELSE <<>>

\* JSON.stringify(value) for values whose strings need no escaping
RECURSIVE JsonStringify(_)
JsonStringify(obj) ==
    IF obj.kind = "string" THEN <<"\"">> \o obj.value \o <<"\"">>
    ELSE IF obj.kind = "number" THEN obj.value
    ELSE IF obj.kind = "array"
    THEN <<"[">> \o Join([i \in 1..Len(obj.items) |-> JsonStringify(obj.items[i])], <<",">>)
             \o <<"]">>
    ELSE <<"{">>
             \o Join([i \in 1..Len(obj.keys) |->
                         <<"\"">> \o obj.keys[i] \o <<"\"", ":">> \o JsonStringify(obj.values[i])],
                     <<",">>)
             \o <<"}">>

\* allowedExtensions: the lowercased file types of all rules, in insertion order
AllowedExtensions(m) ==
    LET rules == m.capabilities.data_access
        types == Flatten([i \in 1..Len(rules) |-> rules[i].file_types])
    IN  Distinct([i \in 1..Len(types) |-> LowerString(types[i])])

\* anyWriteAllowed with the first rule consulted only
AnyWriteAllowedByFirstRule(m) ==
    /\ Len(m.capabilities.data_access) > 0
    /\ "write" \in SeqToSet(m.capabilities.data_access[1].permissions)

\* anyWriteAllowed: some rule's permissions include "write"
AnyWriteAllowed(m) ==
    \E i \in 1..Len(m.capabilities.data_access) :
        "write" \in SeqToSet(m.capabilities.data_access[i].permissions)

\* The extension of a value that looks like a filename, lowercased; <<>> for other values
CheckedExtension(value) ==
    LET dot == LastIndexOf(value, ".")
        ext == LowerString(SubSeq(value, dot, Len(value)))
    IN  IF /\ dot > 1 /\ dot < Len(value)
           /\ Len(ext) >= 2 /\ Len(ext) <= MaxExtensionLength
           /\ \A i \in 2..Len(ext) : ext[i] \in SeqToSet(LowerLetters)
        THEN ext ELSE <<>>

\* The test of a value against a non-empty list of extensions only when the value has
\* an extension of at most four characters
FirstRefusedShortExtension(allowed, values) ==
    LET Refused(i) == /\ CheckedExtension(values[i]) # <<>>
                      /\ Len(CheckedExtension(values[i])) <= 4
                      /\ CheckedExtension(values[i]) \notin SeqToSet(allowed)
        hits == { i \in 1..Len(values) : Refused(i) }
    IN  IF hits = {} THEN 0 ELSE CHOOSE i \in hits : \A j \in hits : i <= j

\* Check 1 of one call: the first string value whose extension is not allowed, 0 if none
FirstRefusedExtension(allowed, values) ==
    LET Refused(i) == /\ CheckedExtension(values[i]) # <<>>
                      /\ CheckedExtension(values[i]) \notin SeqToSet(allowed)
        hits == { i \in 1..Len(values) : Refused(i) }
    IN  IF hits = {} THEN 0 ELSE CHOOSE i \in hits : \A j \in hits : i <= j

WriteWords ==
    { <<"w", "r", "i", "t", "e">>, <<"s", "a", "v", "e">>, <<"c", "r", "e", "a", "t", "e">>, <<"d", "e", "l", "e", "t", "e">>, <<"u", "p", "d", "a", "t", "e">>, <<"m", "o", "d", "i", "f", "y">>, <<"a", "p", "p", "e", "n", "d">>, <<"o", "v", "e", "r", "w", "r", "i", "t", "e">> }

WriteToolParts == { <<"w", "r", "i", "t", "e">>, <<"s", "a", "v", "e">>, <<"c", "r", "e", "a", "t", "e">>, <<"d", "e", "l", "e", "t", "e">>, <<"u", "p", "l", "o", "a", "d">>, <<"s", "e", "n", "d">> }

\* writePatterns.some(p => p.test(argsLower))
IsWriteOperation(args) ==
    LET argsLower == LowerString(JsonStringify(IF args.kind = "undefined"
                                               THEN JsonObject(<<>>, <<>>) ELSE args))
    IN  \E word \in WriteWords : TestWord(word, argsLower)

\* toolCall.toolName || toolCall.name || ""
CallName(toolCall) == IF toolCall.toolName # <<>> THEN toolCall.toolName ELSE toolCall.name

\* /write|save|create|delete|upload|send/i.test(toolName)
IsWriteTool(toolName) == \E part \in WriteToolParts : IndexOf(LowerString(toolName), part) # 0

FileTypeReason(ext, allowed) == [template |-> "File type is not permitted. Allowed types:",
                                 ext |-> ext, allowed |-> allowed]
WriteReason ==
    [ template |-> "Write operations are not permitted under the current mandate. All data access is read-only.",
      ext |-> <<>>, allowed |-> <<>> ]

\* The body of the loop for one call
DataAccessCall(m, toolCall) ==
    LET allowed == AllowedExtensions(m)
        values == extractStrings(toolCall.args)
        refused == FirstRefusedExtension(allowed, values)
    IN  IF Len(allowed) > 0 /\ refused # 0
        THEN Abort(FileTypeReason(CheckedExtension(values[refused]), allowed), TRUE)
        ELSE IF ~AnyWriteAllowed(m)
                /\ (IsWriteOperation(toolCall.args) \/ IsWriteTool(CallName(toolCall)))
        THEN Abort(WriteReason, TRUE)
        ELSE Passed

\* createDataAccessProcessor(m).processOutputStep: the first abort of the loop
RECURSIVE DataAccessStep(_, _)
DataAccessStep(m, calls) ==
    IF calls = <<>> THEN Passed
    ELSE IF DataAccessCall(m, Head(calls)).aborted THEN DataAccessCall(m, Head(calls))
    ELSE DataAccessStep(m, Tail(calls))


DataAccessRule(scope, permissions, fileTypes) ==
    [scope |-> scope, permissions |-> permissions, file_types |-> fileTypes]

\* mandate.capabilities.data_access; a rule without file_types has the empty list
DataAccessRuleLists ==
    { <<>>,
      <<DataAccessRule("user_uploads", <<"read">>, <<>>)>>,
      <<DataAccessRule("user_uploads", <<"read">>, <<<<".", "p", "d", "f">>>>)>>,
      <<DataAccessRule("user_uploads", <<"read">>, <<<<".", "P", "D", "F">>, <<".", "x", "h", "t", "m", "l">>>>),
        DataAccessRule("drafts", <<"read", "write">>, <<<<".", "t", "x", "t">>>>)>>,
      <<DataAccessRule("drafts", <<"read", "write">>, <<>>)>> }

DataAccessMandates ==
    { [AgentMandate("uk-law", <<>>, <<>>, <<>>) EXCEPT !.capabilities =
           [tools |-> <<>>, data_access |-> rules]] : rules \in DataAccessRuleLists }

DataAccessCalls ==
    { [toolName |-> <<"l", "o", "o", "k", "u", "p">>, name |-> <<>>,
       args |-> JsonObject(<<<<"q", "u", "e", "r", "y">>>>, <<JsonString(<<"h", "o", "u", "s", "i", "n", "g", " ", "a", "c", "t">>)>>)],
      [toolName |-> <<"d", "o", "c", "-", "r", "e", "a", "d", "e", "r">>, name |-> <<>>,
       args |-> JsonObject(<<<<"f", "i", "l", "e">>>>, <<JsonString(<<"a", ".", "p", "d", "f">>)>>)],
      [toolName |-> <<"d", "o", "c", "-", "r", "e", "a", "d", "e", "r">>, name |-> <<>>,
       args |-> JsonObject(<<<<"f", "i", "l", "e">>>>, <<JsonString(<<"a", ".", "e", "x", "e">>)>>)],
      [toolName |-> <<"d", "o", "c", "-", "r", "e", "a", "d", "e", "r">>, name |-> <<>>,
       args |-> JsonObject(<<<<"f", "i", "l", "e">>>>, <<JsonString(<<"A", ".", "P", "D", "F">>)>>)],
      [toolName |-> <<"d", "o", "c", "-", "r", "e", "a", "d", "e", "r">>, name |-> <<>>,
       args |-> JsonObject(<<<<"f", "i", "l", "e", "s">>, <<"n">>>>,
                           <<JsonArray(<<JsonString(<<"a", ".", "p", "d", "f">>),
                                         JsonObject(<<<<"p", "a", "t", "h">>>>, <<JsonString(<<"b", ".", "j", "s">>)>>)>>),
                             JsonNumber(<<"2">>)>>)],
      [toolName |-> <<"d", "o", "c", "-", "r", "e", "a", "d", "e", "r">>, name |-> <<>>,
       args |-> JsonObject(<<<<"f", "i", "l", "e">>>>, <<JsonString(<<"p", ".", "x", "h", "t", "m", "l">>)>>)],
      [toolName |-> <<"d", "o", "c", "-", "r", "e", "a", "d", "e", "r">>, name |-> <<>>,
       args |-> JsonObject(<<<<"f", "i", "l", "e">>>>, <<JsonString(<<"q", ".", "x", "h", "t", "m", "l", "s">>)>>)],
      [toolName |-> <<"l", "o", "o", "k", "u", "p">>, name |-> <<>>,
       args |-> JsonObject(<<<<"v">>, <<"e">>>>, <<JsonString(<<"v", "1", ".", "2">>), JsonString(<<".", "e", "n", "v">>)>>)],
      [toolName |-> <<"f", "i", "l", "e", "-", "w", "r", "i", "t", "e">>, name |-> <<>>,
       args |-> JsonObject(<<<<"p", "a", "t", "h">>>>, <<JsonString(<<"o", ".", "t", "x", "t">>)>>)],
      [toolName |-> <<>>, name |-> <<"r", "e", "s", "e", "n", "d">>,
       args |-> JsonAbsent],
      [toolName |-> <<"l", "o", "o", "k", "u", "p">>, name |-> <<>>,
       args |-> JsonObject(<<<<"n", "o", "t", "e">>>>, <<JsonString(<<"p", "l", "e", "a", "s", "e", " ", "S", "a", "v", "e">>)>>)],
      [toolName |-> <<"l", "o", "o", "k", "u", "p">>, name |-> <<>>,
       args |-> JsonObject(<<<<"u", "p", "d", "a", "t", "e">>>>, <<JsonString(<<"x">>)>>)],
      [toolName |-> <<"l", "o", "o", "k", "u", "p">>, name |-> <<>>,
       args |-> JsonObject(<<<<"n", "o", "t", "e">>>>, <<JsonString(<<"s", "a", "v", "e", "d", " ", "s", "a", "v", "e", "_", "a", "s">>)>>)] }

DataAccessBatches == UNION { [1..n -> DataAccessCalls] : n \in 0..MaxBatch }

DataAccessInit ==
    /\ mandate \in DataAccessMandates
    /\ allTools = NoTools
    /\ filtered = [resolved |-> FALSE, tools |-> NoTools]
    /\ toolCalls = <<>>
    /\ retryCount = 0
    /\ gateOutcome = Passed
    /\ auditLog = <<>>
    /\ logMark = 0
    /\ LimitsIdle
    /\ StagesIdle
    /\ CoreIdle

\* The per-step hook hands a batch of tool calls to the Data Access stage; the stage
\* keeps nothing between steps, so a behaviour follows one step
DataAccess(calls) ==
    /\ stageOutcome = NoStageOutcome
    /\ toolCalls' = calls
    /\ stageOutcome' = StageResult("mandate-data-access", DataAccessStep(mandate, calls), messages)
    /\ UNCHANGED <<mandate, allTools, filtered, retryCount, gateOutcome, auditLog, logMark>>
    /\ UNCHANGED <<registeredExpansions, registeredScopeKeywords, registeredPatterns, processors, messages>>
    /\ UNCHANGED <<limitVars, coreVars>>

DataAccessNext == \E calls \in DataAccessBatches : DataAccess(calls)

DataAccessSpec == DataAccessInit /\ [][DataAccessNext]_vars

----------------------------------------------------------------------------
(* Claims about the Data Access stage (DataAccessSpec) *)

DataAccessRan == stageOutcome.stage = "mandate-data-access"

\* The string values of the arguments of the batch, at any depth
BatchValues == UNION { SeqToSet(extractStrings(toolCalls[i].args)) : i \in 1..Len(toolCalls) }

\* value looks like a filename: after its last dot, which is neither its first nor its
\* last character, come one to five letters
LooksLikeFilename(value) ==
    \E dot \in 2..(Len(value) - 1) :
        /\ value[dot] = "."
        /\ \A i \in (dot + 1)..Len(value) : value[i] # "." /\ LowerChar(value[i]) \in SeqToSet(LowerLetters)
        /\ Len(value) - dot <= MaxExtensionLength - 1

ExtensionOf(value) == SubSeq(value, LastIndexOf(value, "."), Len(value))

\* The union of the file_types lists of the policy's data-access rules
FileTypeUnion ==
    UNION { SeqToSet(mandate.capabilities.data_access[i].file_types) :
                i \in 1..Len(mandate.capabilities.data_access) }

AbortedForFileType ==
    stageOutcome.aborted /\ stageOutcome.reason.template = FileTypeReason(<<>>, <<>>).template

AbortedForWrite == stageOutcome.aborted /\ stageOutcome.reason = WriteReason

\* C31 as claimed: for every policy, the batch is aborted, retryably, whenever a string
\* value of its arguments looks like a filename with an extension outside the union of
\* the rules' file_types, and is not aborted for file-type reasons otherwise
C31_FileTypesEveryPolicy ==
    DataAccessRan =>
        /\ (\E value \in BatchValues :
                LooksLikeFilename(value) /\ ExtensionOf(value) \notin FileTypeUnion)
               => stageOutcome.aborted /\ stageOutcome.retry
        /\ (\A value \in BatchValues :
                LooksLikeFilename(value) => ExtensionOf(value) \in FileTypeUnion)
               => ~AbortedForFileType

\* C31 as amended: for every policy whose rules list at least one file type, the batch
\* is aborted, retryably, whenever a string value looks like a filename whose extension
\* is, compared without regard to case, outside the union of the file_types, and is not
\* aborted for file-type reasons otherwise; under a policy whose rules list no file type
\* no batch is aborted for file-type reasons
C31_FileTypesWhenListed ==
    DataAccessRan =>
        LET union == { LowerString(type) : type \in FileTypeUnion }
            Outside(value) ==
                LooksLikeFilename(value) /\ LowerString(ExtensionOf(value)) \notin union
        IN  /\ union # {} /\ (\E value \in BatchValues : Outside(value))
                => stageOutcome.aborted /\ stageOutcome.retry
            /\ (union = {} \/ \A value \in BatchValues : ~Outside(value))
                => ~AbortedForFileType

\* A batch whose second call holds, two levels down, a file of a type the policy does
\* not list, and whose first call holds a listed one
C31_Witness ==
    /\ DataAccessRan
    /\ AbortedForFileType
    /\ stageOutcome.retry
    /\ Len(toolCalls) = 2
    /\ stageOutcome.reason.ext = <<".", "j", "s">>
    /\ <<".", "p", "d", "f">> \in SeqToSet(stageOutcome.reason.allowed)
    /\ <<"a", ".", "p", "d", "f">> \in SeqToSet(extractStrings(toolCalls[1].args))

\* The arguments or the name of the call match the write-indicating vocabulary
MatchesWriteVocabulary(toolCall) ==
    \/ \E word \in WriteWords :
          TestWord(word, LowerString(JsonStringify(IF toolCall.args.kind = "undefined"
                                                   THEN JsonObject(<<>>, <<>>)
                                                   ELSE toolCall.args)))
    \/ \E part \in WriteToolParts :
          \E i \in 1..Len(CallName(toolCall)) :
              StartsWith(LowerString(SubSeq(CallName(toolCall), i, Len(CallName(toolCall)))), part)

SomeRuleGrantsWrite ==
    \E i \in 1..Len(mandate.capabilities.data_access) :
        \E j \in 1..Len(mandate.capabilities.data_access[i].permissions) :
            mandate.capabilities.data_access[i].permissions[j] = "write"

\* C32: when no data-access rule grants write permission, a batch with a call whose tool
\* name or arguments match the write-indicating vocabulary is aborted, retryably; when
\* some rule grants write permission, no batch is aborted for being a write
C32_WriteProtection ==
    DataAccessRan =>
        /\ ~SomeRuleGrantsWrite /\ (\E i \in 1..Len(toolCalls) : MatchesWriteVocabulary(toolCalls[i]))
               => stageOutcome.aborted /\ stageOutcome.retry
        /\ SomeRuleGrantsWrite => ~AbortedForWrite
        /\ AbortedForWrite => \E i \in 1..Len(toolCalls) : MatchesWriteVocabulary(toolCalls[i])

\* Under a read-only policy the second call of a batch writes by its name only
C32_Witness ==
    /\ DataAccessRan
    /\ AbortedForWrite
    /\ stageOutcome.retry
    /\ Len(mandate.capabilities.data_access) = 1
    /\ Len(toolCalls) = 2
    /\ ~MatchesWriteVocabulary(toolCalls[1])
    /\ toolCalls[2].args = JsonAbsent


----------------------------------------------------------------------------
(* src/mandate/processors/output-validator.processor.ts, and the three registries   *)
(* that skill packs fill: registeredExpansions, registeredScopeKeywords and         *)
(* registeredPatterns.  A pattern is the set of the lowercased token runs it        *)
(* matches; the packs' patterns carry the flag i and no flag g.                     *)

ProvideLegalAdvice == <<"provide", "_", "legal", "_", "advice">>
RepresentAsSolicitor == <<"represent", "_", "as", "_", "solicitor">>
GiveInvestmentAdvice == <<"give", "_", "investment", "_", "advice">>

\* registeredPatterns.set(skillPackId, patterns): a pack that registers again keeps its
\* place in the iteration order
PatternsSet(registered, skillPackId, patterns) ==
    IF \E i \in 1..Len(registered) : registered[i].key = skillPackId
    THEN [i \in 1..Len(registered) |->
             IF registered[i].key = skillPackId
             THEN [key |-> skillPackId, value |-> patterns] ELSE registered[i]]
    ELSE Append(registered, [key |-> skillPackId, value |-> patterns])

\* [...registeredPatterns.values()].flat()
AllPatterns(registered) == Flatten([i \in 1..Len(registered) |-> registered[i].value])

RephraseReason(action) ==
    <<"I need to rephrase - I cannot ">> \o ReplaceUnderscores(action)
        \o <<". Let me try again with proper framing.">>

\* The pair has a prohibited action and its pattern matches the text
PairRefuses(m, pair, text) ==
    Includes(m.prohibitions.actions, pair.action) /\ TestPatternIgnoreCase(pair.pattern, text)

\* OutputValidatorResult without the test that the policy prohibits the action
OutputValidatorAnyAction(m, registered, msgs) ==
    LET idx == FindLastIndex(msgs, "assistant")
        all == AllPatterns(registered)
        hits == { i \in 1..Len(all) : TestPatternIgnoreCase(all[i].pattern, msgs[idx].content) }
    IN  IF idx = 0 \/ Len(m.prohibitions.actions) = 0 \/ hits = {} THEN StagePassed
        ELSE Abort(RephraseReason(all[CHOOSE i \in hits : \A j \in hits : i <= j].action), FALSE)

\* createOutputValidatorProcessor(mandate).processOutputResult: the registry is read when
\* the response is checked, and the first pair that refuses aborts
OutputValidatorResult(m, registered, msgs) ==
    LET idx == FindLastIndex(msgs, "assistant")
        all == AllPatterns(registered)
        hits == { i \in 1..Len(all) : PairRefuses(m, all[i], msgs[idx].content) }
    IN  IF idx = 0 \/ Len(m.prohibitions.actions) = 0 \/ hits = {} THEN StagePassed
        ELSE Abort(RephraseReason(all[CHOOSE i \in hits : \A j \in hits : i <= j].action), FALSE)

\* createEscalationProcessor and createScopeProcessor merge the registries when they are
\* called; createOutputValidatorProcessor captures the policy only
CreatedProcessors(expansions, scopeKeywords, patterns) ==
    [ constructed |-> TRUE,
      allExpansions |-> ObjectAssign(expansions),
      allScopeKeywords |-> ObjectAssign(scopeKeywords),
      registries |-> [expansions |-> expansions, scopeKeywords |-> scopeKeywords,
                      patterns |-> patterns] ]

MaxRegistrations == 2

RegistryMandate(actions) ==
    [ capabilities |-> [tools |-> <<>>],
      prohibitions |-> [tools |-> <<>>, data |-> <<>>, actions |-> actions],
      limits |-> DefaultLimits,
      scope |-> DefaultScope,
      escalation |-> [triggers |-> <<RefuseCrime>>] ]

RegistryMandates ==
    { RegistryMandate(actions) :
          actions \in { <<>>, <<ProvideLegalAdvice>>, <<RepresentAsSolicitor, ProvideLegalAdvice>> } }

ActionPattern(action, pattern) == [action |-> action, pattern |-> pattern]

\* The arguments of registerProhibitedActionPatterns
PatternRegistrations ==
    { [skillPackId |-> "uk-law",
       patterns |-> <<ActionPattern(ProvideLegalAdvice, { <<"advise">> }),
                      ActionPattern(RepresentAsSolicitor, { <<"your", " ", "solicitor">> })>>],
      [skillPackId |-> "uk-law", patterns |-> <<>>],
      [skillPackId |-> "finance",
       patterns |-> <<ActionPattern(GiveInvestmentAdvice, { <<"buy">> }),
                      ActionPattern(ProvideLegalAdvice, { <<"solicitor">> })>>] }

ExpansionRegistrations == { [t \in {CrimeTopic} |-> << <<"fraud">> >>] }

ScopeRegistrations == { [sc \in {"us"} |-> << <<"Texas">> >>] }

RegistryInputLists ==
    { <<Message("user", text)>> : text \in { <<"hello">>, <<"crime">>, <<"fraud">>, <<"Texas">> } }

RegistryResultLists ==
    { <<Message("user", <<"hello">>), Message("assistant", text)>> :
          text \in { <<"hello">>, <<"I", " ", "Advise">>, <<"buy">>,
                     <<"your", " ", "Solicitor">>, <<"Advise", " ", "Solicitor">> } }
    \cup { <<Message("user", <<"advise">>)>>,
           <<Message("assistant", <<"Solicitor">>), Message("user", <<"hello">>)>> }

Registrations ==
    Len(registeredExpansions) + Len(registeredScopeKeywords) + Len(registeredPatterns)

RegistryInit ==
    /\ mandate \in RegistryMandates
    /\ StagesIdle
    /\ ToolsIdle
    /\ LimitsIdle
    /\ CoreIdle

\* registerEscalationKeywords, called by a pack that has not registered before
RegisterEscalationKeywords(expansions) ==
    /\ Registrations < MaxRegistrations
    /\ registeredExpansions' = Append(registeredExpansions, expansions)
    /\ UNCHANGED <<registeredScopeKeywords, registeredPatterns, processors, messages, stageOutcome>>
    /\ UNCHANGED <<toolVars, limitVars, coreVars>>

\* registerScopeKeywords, called by a pack that has not registered before
RegisterScopeKeywords(keywords) ==
    /\ Registrations < MaxRegistrations
    /\ registeredScopeKeywords' = Append(registeredScopeKeywords, keywords)
    /\ UNCHANGED <<registeredExpansions, registeredPatterns, processors, messages, stageOutcome>>
    /\ UNCHANGED <<toolVars, limitVars, coreVars>>

\* registerProhibitedActionPatterns
RegisterProhibitedActionPatterns(skillPackId, patterns) ==
    /\ \/ Registrations < MaxRegistrations
       \/ \E i \in 1..Len(registeredPatterns) : registeredPatterns[i].key = skillPackId
    /\ registeredPatterns' = PatternsSet(registeredPatterns, skillPackId, patterns)
    /\ UNCHANGED <<registeredExpansions, registeredScopeKeywords, processors, messages, stageOutcome>>
    /\ UNCHANGED <<toolVars, limitVars, coreVars>>

\* The factory constructs the Escalation, Scope and Output Validator stages of the agent
CreateProcessors ==
    /\ ~processors.constructed
    /\ processors' = CreatedProcessors(registeredExpansions, registeredScopeKeywords,
                                       registeredPatterns)
    /\ UNCHANGED <<registeredExpansions, registeredScopeKeywords, registeredPatterns, messages,
                   stageOutcome>>
    /\ UNCHANGED <<toolVars, limitVars, coreVars>>

\* The input hook hands a message list to the constructed Escalation stage
EscalationProcessInput(msgs) ==
    /\ processors.constructed
    /\ messages' = msgs
    /\ stageOutcome' = StageResult("escalation",
                                   EscalationInput(mandate, <<processors.allExpansions>>, msgs),
                                   msgs)
    /\ UNCHANGED <<registeredExpansions, registeredScopeKeywords, registeredPatterns, processors>>
    /\ UNCHANGED <<toolVars, limitVars, coreVars>>

\* The input hook hands a message list to the constructed Scope stage
ScopeProcessInput(msgs) ==
    /\ processors.constructed
    /\ messages' = msgs
    /\ stageOutcome' = StageResult("scope",
                                   ScopeInput(mandate, <<processors.allScopeKeywords>>, msgs),
                                   msgs)
    /\ UNCHANGED <<registeredExpansions, registeredScopeKeywords, registeredPatterns, processors>>
    /\ UNCHANGED <<toolVars, limitVars, coreVars>>

\* The result hook hands the final message list to the constructed Output Validator
OutputValidator(msgs) ==
    /\ processors.constructed
    /\ messages' = msgs
    /\ stageOutcome' = StageResult("output-validator",
                                   OutputValidatorResult(mandate, registeredPatterns, msgs),
                                   msgs)
    /\ UNCHANGED <<registeredExpansions, registeredScopeKeywords, registeredPatterns, processors>>
    /\ UNCHANGED <<toolVars, limitVars, coreVars>>

RegistryNext ==
    \/ \E expansions \in ExpansionRegistrations : RegisterEscalationKeywords(expansions)
    \/ \E keywords \in ScopeRegistrations : RegisterScopeKeywords(keywords)
    \/ \E reg \in PatternRegistrations :
          RegisterProhibitedActionPatterns(reg.skillPackId, reg.patterns)
    \/ CreateProcessors
    \/ \E msgs \in RegistryInputLists : EscalationProcessInput(msgs)
    \/ \E msgs \in RegistryInputLists : ScopeProcessInput(msgs)
    \/ \E msgs \in RegistryResultLists : OutputValidator(msgs)

RegistrySpec == RegistryInit /\ [][RegistryNext]_vars

----------------------------------------------------------------------------
(* Claims about the Output Validator and the registries (RegistrySpec) *)

OutputValidatorRan == stageOutcome.stage = "output-validator"

\* The text of the final assistant message of the list the stage was handed
FinalAssistantText == messages[FindLastIndex(messages, "assistant")].content

\* The registered pairs whose action the policy prohibits and whose pattern matches the
\* final assistant text
RefusingPairs ==
    { pair \in UNION { SeqToSet(registeredPatterns[i].value) : i \in 1..Len(registeredPatterns) } :
          /\ pair.action \in SeqToSet(mandate.prohibitions.actions)
          /\ FindLastIndex(messages, "assistant") # 0
          /\ \E run \in pair.pattern : IncludesText(ToLowerCase(FinalAssistantText), run) }

\* The outcome of the Output Validator agrees with the registry as it stands
ValidatorDecidedByRegistry ==
    /\ stageOutcome.aborted <=> (RefusingPairs # {})
    /\ stageOutcome.aborted =>
          /\ ~stageOutcome.retry
          /\ \E pair \in RefusingPairs : stageOutcome.reason = RephraseReason(pair.action)
          /\ "_" \notin SeqToSet(stageOutcome.reason)

\* C33: the Output Validator hard-aborts the final response exactly when some registered
\* pair has an action the policy prohibits and a pattern that matches the final assistant
\* text; the reason names the action of such a pair with its underscores turned into
\* spaces; a pattern of an action the policy does not prohibit never aborts
C33_ValidatorIff ==
    [][ (\E msgs \in RegistryResultLists : OutputValidator(msgs)) => ValidatorDecidedByRegistry'
      ]_vars

\* The response matches the pattern of an action the policy does not prohibit, registered
\* first, and a pattern of a prohibited action registered by a second pack
C33_Witness ==
    /\ OutputValidatorRan
    /\ stageOutcome.aborted
    /\ Len(registeredPatterns) = 2
    /\ mandate.prohibitions.actions = <<ProvideLegalAdvice>>
    /\ FinalAssistantText = <<"your", " ", "Solicitor">>
    /\ stageOutcome.reason =
          <<"I need to rephrase - I cannot ", "provide", " ", "legal", " ", "advice",
            ". Let me try again with proper framing.">>

\* C36: a registration made after the stages were constructed does not change their
\* decisions: Escalation, Scope and the Output Validator each decide as the registries
\* stood when the stage was constructed
C36_DecideAsConstructed ==
    /\ stageOutcome.stage = "escalation" =>
          stageOutcome = StageResult("escalation",
                                     EscalationInput(mandate, processors.registries.expansions,
                                                     messages), messages)
    /\ stageOutcome.stage = "scope" =>
          stageOutcome = StageResult("scope",
                                     ScopeInput(mandate, processors.registries.scopeKeywords,
                                                messages), messages)
    /\ OutputValidatorRan =>
          stageOutcome = StageResult("output-validator",
                                     OutputValidatorResult(mandate, processors.registries.patterns,
                                                           messages), messages)

\* The part of C36 that holds: the Escalation and Scope stages decide as the registries
\* stood when they were constructed
C36_InputStagesAsConstructed ==
    /\ stageOutcome.stage = "escalation" =>
          stageOutcome.aborted =
              EscalationInput(mandate, processors.registries.expansions, messages).aborted
    /\ stageOutcome.stage = "scope" =>
          stageOutcome.aborted =
              ScopeInput(mandate, processors.registries.scopeKeywords, messages).aborted


----------------------------------------------------------------------------
(* Claims about sessions and the daily counter over time (LimitsSpec) *)

\* The last Limits call refused an input of sessionId for having passed the turn limit
TurnLimitHit(sessionId) ==
    /\ limitsOutcome.op = "input"
    /\ limitsOutcome.sessionId = sessionId
    /\ limitsOutcome.aborted
    /\ limitsOutcome.reason = SessionLimitReason(mandate.limits)

\* C34: once a session id has used its max_turns_per_session turns, every further input on
\* that session id is hard-aborted, not only the first one after the limit: the input that
\* follows a turn-limit refusal of the same session id is refused too
C34_BlockedAfterTurnLimit ==
    [][ \A sessionId \in SessionIds :
            TurnLimitHit(sessionId) /\ ProcessInput(sessionId) => limitsOutcome'.aborted ]_vars


\* The entry of sessionId is tracked before and after the step, and is the same
EntryKept(sessionId) ==
    /\ sessionId \in DOMAIN activeSessions'
    /\ activeSessions'[sessionId] = activeSessions[sessionId]

\* C38: a session entry is removed only by its own session's turn-limit or timeout abort;
\* a step of one session id, an input or a result, neither removes the entry of another
\* session nor changes its turn count or start time; an input refused for daily-budget
\* exhaustion leaves its session tracked
C38_SessionIsolation ==
    [][ /\ \A tracked \in DOMAIN activeSessions :
              \/ EntryKept(tracked)
              \/ /\ ProcessInput(tracked)
                 /\ tracked \notin DOMAIN activeSessions' =>
                       /\ limitsOutcome'.aborted
                       /\ limitsOutcome'.reason \in {SessionLimitReason(mandate.limits), TimeoutReason}
        /\ \A sessionId \in SessionIds :
              ProcessInput(sessionId) /\ limitsOutcome'.reason = DailyBudgetReason
                  => sessionId \in DOMAIN activeSessions'
        /\ (\E hasAssistant \in BOOLEAN, text \in Texts : ProcessResult(hasAssistant, text))
              => activeSessions' = activeSessions
      ]_vars

\* With two sessions tracked, the input of one was refused with its turn limit and evicted
\* it; the other is still tracked
C38_Witness ==
    /\ limitsOutcome.op = "input"
    /\ limitsOutcome.aborted
    /\ limitsOutcome.reason = SessionLimitReason(mandate.limits)
    /\ limitsOutcome.sessionId \notin DOMAIN activeSessions
    /\ \E other \in DOMAIN activeSessions : activeSessions[other].turns >= 1

\* An input refused for the daily budget whose session stays tracked beside another one
C38_BudgetRefusalKeepsSession ==
    /\ limitsOutcome.op = "input"
    /\ limitsOutcome.reason = DailyBudgetReason
    /\ limitsOutcome.sessionId \in DOMAIN activeSessions
    /\ Cardinality(DOMAIN activeSessions) >= 2

\* C40: in every reachable state the daily token counter is less than token_budget_daily
\* plus max_tokens_per_turn
C40_OvershootBounded ==
    dailyTokensUsed < mandate.limits.token_budget_daily + mandate.limits.max_tokens_per_turn

\* What does hold: each interaction admitted below the budget adds at most the cap
C40_BoundedByInFlight ==
    dailyTokensUsed + inFlight * mandate.limits.max_tokens_per_turn
        < mandate.limits.token_budget_daily + MaxInFlight * mandate.limits.max_tokens_per_turn


----------------------------------------------------------------------------
(* Claims about the composed policy as a whole (ComposeSpec) *)

ComposeExtensions == {<<".", "p", "d", "f">>, <<".", "c", "s", "v">>, <<".", "t", "x", "t">>}

\* The Data Access stage of the policy lets a file of the extension through
PermitsExtension(m, ext) ==
    AllowedExtensions(m) = <<>> \/ ext \in SeqToSet(AllowedExtensions(m))

\* C35: the composed policy is the most restrictive in every enforcement field and does
\* not depend on the order of the inputs: it requires citations if any input does, it
\* permits a file extension or write access only if every input does, and composing the
\* same policies in another order gives the same citation requirement and the same
\* data-access rules
C35_MostRestrictive ==
    returned.kind = "policy" =>
        LET n == Len(policies)
            result == returned.policy
        IN  /\ (\E i \in 1..n : policies[i].requirements.citations.required)
                   => result.requirements.citations.required
            /\ \A ext \in ComposeExtensions :
                   PermitsExtension(result, ext) => \A i \in 1..n : PermitsExtension(policies[i], ext)
            /\ AnyWriteAllowed(result) => \A i \in 1..n : AnyWriteAllowed(policies[i])
            /\ \A order \in Permutations(1..n) :
                   LET other == composeMandates([i \in 1..n |-> policies[order[i]]]).policy
                   IN  /\ other.requirements.citations.required
                              = result.requirements.citations.required
                       /\ other.capabilities.data_access = result.capabilities.data_access

\* Every policy composed passes the consistency validator
InputsValid == \A i \in 1..Len(policies) : validateMandateConsistency(policies[i]).valid

\* The tools of the whitelist that are an exact prohibition of the policy or start with
\* the prefix, separator included, of one of its wildcard prohibitions
ProhibitedWhitelisted(m) ==
    { tool \in SeqToSet(m.capabilities.tools) :
          \E i \in 1..Len(m.prohibitions.tools) :
              \/ m.prohibitions.tools[i] = tool
              \/ /\ IsWildcardEntry(m.prohibitions.tools[i])
                 /\ StartsWith(tool, PrefixWithSeparator(m.prohibitions.tools[i])) }

\* C39: when every input policy passes the consistency validator, the composed policy
\* passes it too, and no tool of the composed whitelist is an exact prohibition or
\* matched by a wildcard prohibition of the composed policy
C39_ConsistencyPreserved ==
    returned.kind = "policy" /\ InputsValid =>
        /\ validateMandateConsistency(returned.policy).valid
        /\ ProhibitedWhitelisted(returned.policy) = {}

\* The part of C39 that holds: the validator passes the composition of policies it passes
C39_ValidatorPassesComposed ==
    returned.kind = "policy" /\ InputsValid => validateMandateConsistency(returned.policy).valid


----------------------------------------------------------------------------
(* Claims about the rows of the Tool Gate in the audit table (ToolSpec) *)

\* The rows the last Tool Gate call wrote for calls it blocked
BlockedGateRows == { i \in (logMark + 1)..Len(auditLog) : auditLog[i].check_result = "blocked" }

\* C37: a row the Tool Gate writes for a blocked call carries the status 'blocked' and the
\* name and version of the policy, so that a query by the status 'blocked' or by the
\* policy name returns it and stats counts it as blocked
C37_BlockedRowsQueryable ==
    \A i \in BlockedGateRows :
        /\ auditLog[i].status = "blocked"
        /\ auditLog[i].mandate_name \in PolicyNames
        /\ auditLog[i].mandate_version \in PolicyVersions
        /\ auditLog[i] \in SeqToSet(LoggerQuery(auditLog, [ status |-> "blocked", mandateName |-> "",
                                                            since |-> 0, limit |-> 0 ]))
        /\ \E name \in PolicyNames :
               auditLog[i] \in SeqToSet(LoggerQuery(auditLog, [ status |-> "", mandateName |-> name,
                                                                since |-> 0, limit |-> 0 ]))
        /\ LoggerStats(auditLog, "").blocked >= 1


====
